---- MODULE Spec2Model ----
(***************************************************************************)
(* Model of the Opal COI generator: the extraction/reconciliation pipeline *)
(* of app.py (main, reconcile_extractions, _preserve_fields) and the form  *)
(* pipeline of acord_filler.py (presence predicates, determine_forms,      *)
(* fill_acord_forms).                                                      *)
(*                                                                         *)
(* JSON values are tagged records, so that Python's dynamic tests          *)
(* (isinstance(x, dict), truthiness, x is None) can be evaluated:          *)
(*   null -> [k |-> "null"]          "s"  -> [k |-> "str",  s |-> "s"]     *)
(*   12   -> [k |-> "num", n |-> 12] true -> [k |-> "bool", b |-> TRUE]    *)
(*   {..} -> [k |-> "dict", d |-> function from keys to values]            *)
(*   [..] -> [k |-> "list", l |-> sequence of values]                      *)
(* A Python exception is the value Raised; every operation propagates it.  *)
(***************************************************************************)
EXTENDS Integers, Sequences, FiniteSets, TLC

VARIABLES
    files,            \* uploaded files, in upload order (app.py:503-506)
    pc,               \* position of the extraction run in app.main
    classifications,  \* all_classifications (app.py:512)
    extractions,      \* all_extractions (app.py:513)
    reply,            \* what the upstream merge call answered, NoReply before
    path,             \* how primary was produced: none, single, merged, fallback
    mergeCalls,       \* number of upstream merge calls made
    primary,          \* the record reconcile_extractions / main produced
    stored,           \* st.session_state["extraction_result"]
    forms,            \* the list of applicable forms: determine_forms(result) of
                      \* app.py:575, forms of fill_acord_forms
    forms_to_generate, \* app.py:720-723: the forms section 4 offers
    data,             \* acord_filler.main: the coverage document read from disk
    formsArg,         \* acord_filler.main: the --forms override, NoForms if none
    templates,        \* which FORM_PATHS templates exist on disk
    todo,             \* fill_acord_forms: forms still to process
    results,          \* fill_acord_forms: forms for which an output was produced
    fpc,              \* position of acord_filler.main
    field_map,        \* fill_pdf: the field map it was called with
    pdf,              \* fill_pdf: the template document at template_path
    fill_values,      \* fill_pdf: the resolved values to write (802-812)
    warnings,         \* fill_pdf: the fields reported "Error resolving" (807)
    written,          \* fill_pdf: per annotation, what the walk wrote to it
    matched_fields,   \* fill_pdf: matched_fields (820, 846, 855)
    unmatched,        \* fill_pdf: the reported set of unmatched fields (868)
    outfile,          \* the file at output_path
    ppc,              \* position of fill_pdf
    unit_arg,         \* a call of _fm or _parse_address: its argument
    unit_out,         \* a call of _fm or _parse_address: what it returned
    upc               \* position of that call

vars == <<files, pc, classifications, extractions, reply, path, mergeCalls,
          primary, stored, forms, forms_to_generate, data, formsArg, templates, todo, results, fpc,
          field_map, pdf, fill_values, warnings, written, matched_fields,
          unmatched, outfile, ppc, unit_arg, unit_out, upc>>

pipeVars == <<files, pc, classifications, extractions, reply, path, mergeCalls,
              primary, stored, forms_to_generate>>
fillVars == <<data, formsArg, templates, todo, results, fpc>>
pdfVars == <<field_map, pdf, fill_values, warnings, written, matched_fields,
             unmatched, outfile, ppc>>
unitVars == <<unit_arg, unit_out, upc>>

\* Largest number of files uploaded in one extraction run.
MaxFiles == 2

-----------------------------------------------------------------------------
(* JSON values and the Python operations the code applies to them *)

JNull == [k |-> "null"]
JStr(s) == [k |-> "str", s |-> s]
JNum(n) == [k |-> "num", n |-> n]
JBool(b) == [k |-> "bool", b |-> b]
JDict(f) == [k |-> "dict", d |-> f]
JList(q) == [k |-> "list", l |-> q]
Raised == [k |-> "raise"]

\* Python floats: a finite float is sign * num / den with den a power of ten
\* (1500.5 is JReal(FALSE, 15005, 10)); json.loads also reads Infinity and NaN
JReal(neg, num, den) == [k |-> "real", neg |-> neg, num |-> num, den |-> den]
JInf(neg) == [k |-> "inf", neg |-> neg]
JNaN == [k |-> "nan"]

EmptyDict == JDict([z \in {} |-> z])
EmptyList == JList(<<>>)

IsRaised(x) == x.k = "raise"
IsDict(x) == x.k = "dict"
IsNone(x) == x.k = "null"

\* bool(x) of a JSON value
Truthy(x) ==
    CASE x.k = "null" -> FALSE
      [] x.k = "str" -> x.s /= ""
      [] x.k = "num" -> x.n /= 0
      [] x.k = "bool" -> x.b
      [] x.k = "dict" -> DOMAIN x.d /= {}
      [] x.k = "list" -> Len(x.l) > 0
      [] x.k = "real" -> x.num /= 0
      [] x.k \in {"inf", "nan"} -> TRUE

\* x.get(key, dflt): AttributeError unless x is a dict
dict_get(x, key, dflt) ==
    IF ~IsDict(x) THEN Raised
    ELSE IF key \in DOMAIN x.d THEN x.d[key] ELSE dflt

\* x or y
py_or(x, y) == IF IsRaised(x) THEN Raised ELSE IF Truthy(x) THEN x ELSE y

\* The strings of the model hold the characters U+0001 to U+00FF without
\* U+0060, U+00B5 and U+00FF. A string literal cannot hold U+0060: only the
\* fences of an answer use it, and the model keeps a fence as a piece of its
\* own (Fence). U+00B5 and U+00FF are the two characters of the range whose
\* upper-case form lies outside it (U+039C, U+0178); every other str method
\* used here maps the remaining characters to strings of the same characters.
\* CharTable lists the characters by code, the character of code n at position
\* n + 1, with a blank in the places of the codes left out (Codes are the
\* others).
Chars00 == " \t\n\f\r"
Chars20 == " !\"#$%&'()*+,-./0123456789:;<=>?"
Chars40 == "@ABCDEFGHIJKLMNOPQRSTUVWXYZ[\\]^_"
Chars60 == " abcdefghijklmnopqrstuvwxyz{|}~"
Chars80 == ""
CharsA0 == " ¡¢£¤¥¦§¨©ª«¬­®¯°±²³´ ¶·¸¹º»¼½¾¿"
CharsC0 == "ÀÁÂÃÄÅÆÇÈÉÊËÌÍÎÏÐÑÒÓÔÕÖ×ØÙÚÛÜÝÞß"
CharsE0 == "àáâãäåæçèéêëìíîïðñòóôõö÷øùúûüýþ "
CharTable ==
    Chars00 \o Chars20 \o Chars40 \o Chars60 \o Chars80 \o CharsA0 \o CharsC0 \o CharsE0

Codes == (1..255) \ {96, 181, 255}

\* chr(n) and ord(c)
chr(n) == SubSeq(CharTable, n + 1, n + 1)
OrdOf == [c \in {chr(n) : n \in Codes} |-> CHOOSE n \in Codes : chr(n) = c]
ord(c) == OrdOf[c]

\* a < b for two strings
RECURSIVE str_less(_, _)
str_less(a, b) ==
    IF b = "" THEN FALSE
    ELSE IF a = "" THEN TRUE
    ELSE IF Head(a) = Head(b) THEN str_less(Tail(a), Tail(b))
    ELSE ord(Head(a)) < ord(Head(b))

\* the keys in ascending order
RECURSIVE sorted_keys(_)
sorted_keys(keys) ==
    IF keys = {} THEN <<>>
    ELSE LET least == CHOOSE f \in keys : \A g \in keys \ {f} : str_less(f, g)
         IN  <<least>> \o sorted_keys(keys \ {least})

\* the members of a sequence
Range(q) == {q[i] : i \in 1..Len(q)}

\* A dict keeps its keys in insertion order: items(), repr and json.dumps
\* follow it. JDict(f) is the dict whose keys were inserted in ascending order,
\* as json.loads builds it from a text that lists them so; a dict with any
\* other order carries the order in a field o.
key_order(x) == IF "o" \in DOMAIN x THEN x.o ELSE sorted_keys(DOMAIN x.d)

is_ascending(order) ==
    \A i \in 1..(Len(order) - 1) : str_less(order[i], order[i + 1])

\* the dict of the items f whose keys were inserted in the given order
ordered_dict(f, order) ==
    IF is_ascending(order) THEN JDict(f) ELSE [k |-> "dict", d |-> f, o |-> order]

\* the keys of a sequence of <<key, value>> items, each at its first place
RECURSIVE first_keys(_, _)
first_keys(items, seen) ==
    IF items = <<>> THEN <<>>
    ELSE IF items[1][1] \in seen THEN first_keys(Tail(items), seen)
    ELSE <<items[1][1]>> \o first_keys(Tail(items), seen \cup {items[1][1]})

\* the dict json.loads builds from the items of an object in the order of the
\* text: a repeated key keeps its first place and its last value
JItems(items) ==
    ordered_dict([key \in {items[i][1] : i \in DOMAIN items} |->
                    LET last == CHOOSE i \in DOMAIN items :
                                    /\ items[i][1] = key
                                    /\ \A j \in DOMAIN items : items[j][1] = key => j <= i
                    IN  items[last][2]],
                 first_keys(items, {}))

\* for key in order: x[key] = g[key], on a dict x: a key x has keeps its
\* place, a new key goes to the end
dict_put_all(x, order, g) ==
    LET f == [key \in DOMAIN x.d \cup DOMAIN g |->
                IF key \in DOMAIN g THEN g[key] ELSE x.d[key]]
        New(key) == key \in DOMAIN g /\ key \notin DOMAIN x.d
    IN  IF \A key \in DOMAIN g : key \in DOMAIN x.d THEN [x EXCEPT !.d = f]
        ELSE ordered_dict(f, key_order(x) \o SelectSeq(order, New))

\* x[key] = v on a dict x
dict_set(x, key, v) == dict_put_all(x, <<key>>, [f \in {key} |-> v])

-----------------------------------------------------------------------------
(* app.py: _preserve_fields *)

\* the loop without its test of the merged value: every non-empty source value
\* is written
backfill_overwrite(merged, source) ==
    LET take == {f \in DOMAIN source.d : Truthy(source.d[f])}
    IN  dict_put_all(merged, key_order(source), [f \in take |-> source.d[f]])

\* for field, value in source.items():
\*     if value and not merged.get(field): merged[field] = value
backfill(merged, source) ==
    LET take == {f \in DOMAIN source.d :
                    Truthy(source.d[f]) /\ ~Truthy(dict_get(merged, f, JNull))}
    IN  dict_put_all(merged, key_order(source), [f \in take |-> source.d[f]])

\* app.py:350-356, the loop over the extractions for one section of acord25
RECURSIVE backfill_section(_, _, _, _, _)
backfill_section(merged_section, exts, form_key, section, i) ==
    IF i > Len(exts) THEN merged_section
    ELSE LET source_section ==
                 dict_get(py_or(dict_get(exts[i], form_key, JNull), EmptyDict),
                          section, EmptyDict)
         IN  IF IsRaised(source_section) THEN Raised
             ELSE IF ~IsDict(source_section)
                  THEN backfill_section(merged_section, exts, form_key, section, i + 1)
             ELSE backfill_section(backfill(merged_section, source_section),
                                   exts, form_key, section, i + 1)

\* app.py:346-358, one section of a form that has coverage sections
preserve_section(reconciled, exts, form_key, section) ==
    IF IsRaised(reconciled) THEN Raised
    ELSE
    LET merged_section ==
            dict_get(py_or(dict_get(reconciled, form_key, JNull), EmptyDict),
                     section, EmptyDict)
    IN  IF IsRaised(merged_section) THEN Raised
        ELSE IF ~IsDict(merged_section) THEN reconciled
        ELSE
        LET filled == backfill_section(merged_section, exts, form_key, section, 1)
            \* reconciled.setdefault(form_key, {})
            form == dict_get(reconciled, form_key, EmptyDict)
        IN  IF IsRaised(filled) THEN Raised
            ELSE IF ~Truthy(filled) THEN reconciled
            ELSE IF ~IsDict(form) THEN Raised
            ELSE dict_set(reconciled, form_key, dict_set(form, section, filled))

\* app.py:367-377, one source form folded into merged_form
backfill_form(merged_form, source_form) ==
    LET subs == {f \in DOMAIN source_form.d :
                    /\ IsDict(source_form.d[f])
                    /\ IsDict(dict_get(merged_form, f, EmptyDict))}
        take == {f \in DOMAIN source_form.d :
                    /\ ~IsDict(source_form.d[f])
                    /\ Truthy(source_form.d[f])
                    /\ ~Truthy(dict_get(merged_form, f, JNull))}
    IN  dict_put_all(merged_form, key_order(source_form),
                     [f \in subs \cup take |->
                        IF f \in subs
                        THEN backfill(dict_get(merged_form, f, EmptyDict), source_form.d[f])
                        ELSE source_form.d[f]])

\* app.py:363-378, the loop over the extractions for a form without sections;
\* acc is [form |-> merged_form, assigned |-> whether line 378 has run]
RECURSIVE backfill_forms(_, _, _, _)
backfill_forms(acc, exts, form_key, i) ==
    IF i > Len(exts) THEN acc
    ELSE LET source_form == py_or(dict_get(exts[i], form_key, JNull), EmptyDict)
         IN  IF IsRaised(source_form) THEN Raised
             ELSE IF ~IsDict(source_form)
                  THEN backfill_forms(acc, exts, form_key, i + 1)
             ELSE backfill_forms([form |-> backfill_form(acc.form, source_form),
                                  assigned |-> TRUE, k |-> "acc"],
                                 exts, form_key, i + 1)

\* app.py:360-378, a form without coverage sections (acord27, acord28, acord30)
preserve_form(reconciled, exts, form_key) ==
    IF IsRaised(reconciled) THEN Raised
    ELSE
    LET merged_form == py_or(dict_get(reconciled, form_key, JNull), EmptyDict)
    IN  IF IsRaised(merged_form) THEN Raised
        ELSE IF ~IsDict(merged_form) THEN reconciled
        ELSE
        LET acc == backfill_forms([form |-> merged_form, assigned |-> FALSE,
                                   k |-> "acc"], exts, form_key, 1)
        IN  IF IsRaised(acc) THEN Raised
            ELSE IF acc.assigned THEN dict_set(reconciled, form_key, acc.form)
            ELSE reconciled

\* app.py:384-390, the loop over the extractions for one top-level key
RECURSIVE backfill_top(_, _, _, _)
backfill_top(merged_top, exts, top_key, i) ==
    IF i > Len(exts) THEN merged_top
    ELSE LET source_top == dict_get(exts[i], top_key, EmptyDict)
         IN  IF IsRaised(source_top) THEN Raised
             ELSE IF ~IsDict(source_top)
                  THEN backfill_top(merged_top, exts, top_key, i + 1)
             ELSE backfill_top(backfill(merged_top, source_top), exts, top_key, i + 1)

\* app.py:380-391, one of insured, producer, endorsements, certificateHolder
preserve_top(reconciled, exts, top_key) ==
    IF IsRaised(reconciled) THEN Raised
    ELSE
    LET merged_top == dict_get(reconciled, top_key, EmptyDict)
    IN  IF IsRaised(merged_top) THEN Raised
        ELSE IF ~IsDict(merged_top) THEN reconciled
        ELSE
        LET filled == backfill_top(merged_top, exts, top_key, 1)
        IN  IF IsRaised(filled) THEN Raised
            ELSE dict_set(reconciled, top_key, filled)

\* for c in v: the list that iterating the "carriers" value walks; iterating
\* None or a number raises, and so does c.get on the characters of a string or
\* on the keys of a dict
iter_list(v) ==
    IF IsRaised(v) THEN Raised
    ELSE IF v.k = "list" THEN v
    ELSE IF v.k \in {"str", "dict"} /\ ~Truthy(v) THEN EmptyList
    ELSE Raised

\* the number of an int, a bool or a finite float, as numerator over
\* denominator
is_finite_number(v) == v.k \in {"num", "bool", "real"}

numerator_of(v) ==
    CASE v.k = "num" -> v.n
      [] v.k = "bool" -> (IF v.b THEN 1 ELSE 0)
      [] v.k = "real" -> (IF v.neg THEN -v.num ELSE v.num)

denominator_of(v) == IF v.k = "real" THEN v.den ELSE 1

\* x == y of two JSON values: ints, bools and floats compare as numbers
\* (1 == True == 1.0), NaN equals nothing, lists and dicts compare item by
\* item. An item comparison is "x is y or x == y", and json.loads hands out one
\* NaN object, so a NaN inside a list or dict equals the NaN in the same place
\* of the other.
RECURSIVE py_equals(_, _)
item_equals(x, y) == (x.k = "nan" /\ y.k = "nan") \/ py_equals(x, y)

py_equals(x, y) ==
    IF is_finite_number(x) /\ is_finite_number(y)
    THEN numerator_of(x) * denominator_of(y) = numerator_of(y) * denominator_of(x)
    ELSE IF x.k /= y.k THEN FALSE
    ELSE CASE x.k = "nan" -> FALSE
           [] x.k = "inf" -> x.neg = y.neg
           [] x.k = "list" ->
                 /\ Len(x.l) = Len(y.l)
                 /\ \A i \in 1..Len(x.l) : item_equals(x.l[i], y.l[i])
           [] x.k = "dict" ->
                 /\ DOMAIN x.d = DOMAIN y.d
                 /\ \A f \in DOMAIN x.d : item_equals(x.d[f], y.d[f])
           [] OTHER -> x = y

\* index of the first entry x of cs with x.get("name") == name, 0 if none
RECURSIVE first_named(_, _, _)
first_named(cs, name, j) ==
    IF j > Len(cs) THEN 0
    ELSE IF py_equals(dict_get(cs[j], "name", JNull), name) THEN j
    ELSE first_named(cs, name, j + 1)

\* every entry of the list is a dict: x.get raises on any other entry
all_dicts(cs) == \A j \in 1..Len(cs) : IsDict(cs[j])

\* app.py:395-402, one source carrier c folded into reconciled
preserve_carrier(reconciled, c) ==
    IF IsRaised(reconciled) THEN Raised
    ELSE
    LET name == dict_get(c, "name", JStr(""))
    IN  IF IsRaised(name) THEN Raised
        ELSE IF ~Truthy(name) THEN reconciled
        ELSE
        LET cs == iter_list(dict_get(reconciled, "carriers", EmptyList))
        IN  IF IsRaised(cs) THEN Raised
            ELSE IF ~all_dicts(cs.l) THEN Raised
            ELSE
            LET j == first_named(cs.l, name, 1)
            IN  IF j = 0 THEN reconciled
                ELSE dict_set(reconciled, "carriers",
                              JList([cs.l EXCEPT ![j] = backfill(cs.l[j], c)]))

\* app.py:394-402, the carriers of one extraction, from the j-th on
RECURSIVE preserve_carriers_of(_, _, _)
preserve_carriers_of(reconciled, cs, j) ==
    IF IsRaised(reconciled) \/ j > Len(cs) THEN reconciled
    ELSE preserve_carriers_of(preserve_carrier(reconciled, cs[j]), cs, j + 1)

\* app.py:393-402, the loop over the extractions
RECURSIVE preserve_carriers(_, _, _)
preserve_carriers(reconciled, exts, i) ==
    IF IsRaised(reconciled) \/ i > Len(exts) THEN reconciled
    ELSE LET cs == iter_list(dict_get(exts[i], "carriers", EmptyList))
         IN  IF IsRaised(cs) THEN Raised
             ELSE preserve_carriers(preserve_carriers_of(reconciled, cs.l, 1),
                                    exts, i + 1)

\* the four coverage sections of acord25 (app.py:339)
preserve_sections(reconciled, exts) ==
    preserve_section(
      preserve_section(
        preserve_section(
          preserve_section(reconciled, exts, "acord25", "gl"),
          exts, "acord25", "auto"),
        exts, "acord25", "umbrella"),
      exts, "acord25", "workersComp")

\* the forms without sections (app.py:340-342)
preserve_forms(reconciled, exts) ==
    preserve_form(
      preserve_form(
        preserve_form(reconciled, exts, "acord27"),
        exts, "acord28"),
      exts, "acord30")

\* the top-level keys (app.py:380)
preserve_tops(reconciled, exts) ==
    preserve_top(
      preserve_top(
        preserve_top(
          preserve_top(reconciled, exts, "insured"),
          exts, "producer"),
        exts, "endorsements"),
      exts, "certificateHolder")

\* _preserve_fields(reconciled, extractions): the record returned, or Raised
_preserve_fields(reconciled, exts) ==
    IF ~IsDict(reconciled) THEN Raised
    ELSE preserve_carriers(
           preserve_tops(preserve_forms(preserve_sections(reconciled, exts), exts), exts),
           exts, 1)

-----------------------------------------------------------------------------
(* app.py: _preserve_fields on objects *)

\* A Python dict or list is an object: a variable, a dict item and a list item
\* hold a reference to it, an assignment stores the reference, and a write
\* through one reference is seen through every other. The heap is the
\* sequence of the objects made so far and Ref(a) refers to the a-th. An
\* object is a JDict or a JList whose members are scalars or references.
Ref(a) == [k |-> "ref", a |-> a]
IsRef(s) == s.k = "ref"

\* A step on objects hands on the heap h and, at at, what its expression
\* evaluates to: a scalar, a reference, or Raised.
Evaluated(h, s) == [h |-> h, at |-> s]

\* a new object: the {} and [] of the code, and what json.loads builds
heap_new(h, obj) == Evaluated(Append(h, obj), Ref(Len(h) + 1))

\* json.loads of the text of v: a new object for every dict and list of v;
\* heap_load_all loads the values of q that follow the Len(m.at) already
\* loaded, which m.at holds
RECURSIVE heap_load(_, _)
RECURSIVE heap_load_all(_, _)
heap_load_next(m, one) == Evaluated(one.h, Append(m.at, one.at))

heap_load_all(m, q) ==
    IF Len(m.at) = Len(q) THEN m
    ELSE heap_load_all(heap_load_next(m, heap_load(m.h, q[Len(m.at) + 1])), q)

heap_load_list(m) == heap_new(m.h, JList(m.at))

heap_load_dict(v, keys, m) ==
    heap_new(m.h, [v EXCEPT !.d = [key \in DOMAIN v.d |->
                                     m.at[CHOOSE i \in 1..Len(keys) : keys[i] = key]]])

heap_load_items(h, v, keys) ==
    heap_load_dict(v, keys,
                   heap_load_all(Evaluated(h, <<>>),
                                 [i \in 1..Len(keys) |-> v.d[keys[i]]]))

heap_load(h, v) ==
    IF v.k = "list" THEN heap_load_list(heap_load_all(Evaluated(h, <<>>), v.l))
    ELSE IF v.k = "dict" THEN heap_load_items(h, v, key_order(v))
    ELSE Evaluated(h, v)

\* the JSON value that s holds in the heap h
RECURSIVE heap_value(_, _)
heap_value(h, s) ==
    IF ~IsRef(s) THEN s
    ELSE IF h[s.a].k = "list"
         THEN JList([i \in 1..Len(h[s.a].l) |-> heap_value(h, h[s.a].l[i])])
    ELSE [h[s.a] EXCEPT !.d = [key \in DOMAIN h[s.a].d |-> heap_value(h, h[s.a].d[key])]]

\* bool(s), isinstance(s, dict)
heap_truthy(h, s) == IF IsRef(s) THEN Truthy(h[s.a]) ELSE Truthy(s)
heap_isdict(h, s) == IsRef(s) /\ h[s.a].k = "dict"

\* obj[key] = s on the dict at address a
heap_set(h, a, key, s) == [h EXCEPT ![a] = dict_set(h[a], key, s)]

\* m.at.get(key): AttributeError unless m.at is a dict
heap_get(m, key) ==
    IF ~heap_isdict(m.h, m.at) THEN Evaluated(m.h, Raised)
    ELSE Evaluated(m.h, dict_get(m.h[m.at.a], key, JNull))

\* m.at.get(key, {}): the {} is a new object
heap_get_dict(m, key) ==
    IF ~heap_isdict(m.h, m.at) THEN Evaluated(m.h, Raised)
    ELSE IF key \in DOMAIN m.h[m.at.a].d THEN Evaluated(m.h, m.h[m.at.a].d[key])
    ELSE heap_new(m.h, EmptyDict)

\* m.at.get(key, dflt) for a default the caller already holds
heap_get_or(m, key, dflt) ==
    IF ~heap_isdict(m.h, m.at) THEN Evaluated(m.h, Raised)
    ELSE Evaluated(m.h, dict_get(m.h[m.at.a], key, dflt))

\* m.at.get(key, []): the [] is a new object
heap_get_list(m, key) ==
    IF ~heap_isdict(m.h, m.at) THEN Evaluated(m.h, Raised)
    ELSE IF key \in DOMAIN m.h[m.at.a].d THEN Evaluated(m.h, m.h[m.at.a].d[key])
    ELSE heap_new(m.h, EmptyList)

\* m.at or {}
heap_or_dict(m) ==
    IF IsRaised(m.at) \/ heap_truthy(m.h, m.at) THEN m ELSE heap_new(m.h, EmptyDict)

\* the items that "for c in s" hands to a body that starts with c.get: the
\* entries of a list; iterating None or a number raises, and so does c.get on
\* the characters of a string or on the keys of a dict
heap_iter(h, s) ==
    IF IsRaised(s) THEN Raised
    ELSE IF IsRef(s) /\ h[s.a].k = "list" THEN h[s.a]
    ELSE IF IsRef(s) /\ ~Truthy(h[s.a]) THEN EmptyList
    ELSE IF ~IsRef(s) /\ s.k = "str" /\ s.s = "" THEN EmptyList
    ELSE Raised

\* The pass as it runs: the heap with every write made so far, and whether no
\* statement has raised.
Running(h) == [h |-> h, ok |-> TRUE]
Failed(h) == [h |-> h, ok |-> FALSE]

\* for field, value in source.items():
\*     if value and not merged.get(field): merged[field] = value
\* for the dicts at the addresses merged and source; keys are the keys of
\* source still to come
RECURSIVE heap_backfill(_, _, _, _)
heap_backfill(h, merged, source, keys) ==
    IF keys = <<>> THEN h
    ELSE heap_backfill(
           IF /\ heap_truthy(h, h[source].d[keys[1]])
              /\ ~heap_truthy(h, dict_get(h[merged], keys[1], JNull))
           THEN heap_set(h, merged, keys[1], h[source].d[keys[1]])
           ELSE h,
           merged, source, Tail(keys))

\* app.py:352-356 and 386-390: the source dict m.at folded into the dict
\* merged; a source that is not a dict is passed over
heap_fold(m, merged) ==
    IF IsRaised(m.at) THEN Failed(m.h)
    ELSE IF ~heap_isdict(m.h, m.at) THEN Running(m.h)
    ELSE Running(heap_backfill(m.h, merged.a, m.at.a, key_order(m.h[m.at.a])))

\* app.py:350-356, the loop over the extractions for one section of acord25
RECURSIVE heap_section_loop(_, _, _, _, _, _)
heap_section_loop(run, merged_section, exts, form_key, section, i) ==
    IF ~run.ok \/ i > Len(exts) THEN run
    ELSE heap_section_loop(
           heap_fold(heap_get_dict(heap_or_dict(heap_get(Evaluated(run.h, exts[i]),
                                                         form_key)),
                                   section),
                     merged_section),
           merged_section, exts, form_key, section, i + 1)

\* m.at[section] = merged_section: TypeError unless m.at is a dict
heap_store(m, section, merged_section) ==
    IF ~heap_isdict(m.h, m.at) THEN Failed(m.h)
    ELSE Running(heap_set(m.h, m.at.a, section, merged_section))

\* reconciled.setdefault(form_key, {}): the value the key has, or a new {}
\* stored under it
heap_setdefault_new(m, reconciled, form_key) ==
    Evaluated(heap_set(m.h, reconciled.a, form_key, m.at), m.at)

heap_setdefault(h, reconciled, form_key) ==
    IF form_key \in DOMAIN h[reconciled.a].d
    THEN Evaluated(h, h[reconciled.a].d[form_key])
    ELSE heap_setdefault_new(heap_new(h, EmptyDict), reconciled, form_key)

\* app.py:357-358
heap_section_close(run, merged_section, reconciled, form_key, section) ==
    IF ~run.ok \/ ~heap_truthy(run.h, merged_section) THEN run
    ELSE heap_store(heap_setdefault(run.h, reconciled, form_key), section,
                    merged_section)

\* app.py:348-358, m.at being merged_section
heap_section_open(m, reconciled, exts, form_key, section) ==
    IF IsRaised(m.at) THEN Failed(m.h)
    ELSE IF ~heap_isdict(m.h, m.at) THEN Running(m.h)
    ELSE heap_section_close(
           heap_section_loop(Running(m.h), m.at, exts, form_key, section, 1),
           m.at, reconciled, form_key, section)

\* app.py:346-358, one section of a form that has coverage sections
heap_section(run, reconciled, exts, form_key, section) ==
    IF ~run.ok THEN run
    ELSE heap_section_open(
           heap_get_dict(heap_or_dict(heap_get(Evaluated(run.h, reconciled), form_key)),
                         section),
           reconciled, exts, form_key, section)

\* app.py:370-375, m.at being merged_sub and value the source's dict
heap_form_sub(m, merged_form, field, value) ==
    IF ~heap_isdict(m.h, m.at) THEN m.h
    ELSE heap_set(heap_backfill(m.h, m.at.a, value.a, key_order(m.h[value.a])),
                  merged_form, field, m.at)

\* line 369 with the source's dict as the default, merged_form.get(field,
\* value): what the first source brings is then written into by the next
heap_form_dict_shared(h, merged_form, field, value) ==
    heap_form_sub(heap_get_or(Evaluated(h, Ref(merged_form)), field, value),
                  merged_form, field, value)

\* app.py:369-375, a field of the source form whose value is a dict
heap_form_dict(h, merged_form, field, value) ==
    heap_form_sub(heap_get_dict(Evaluated(h, Ref(merged_form)), field),
                  merged_form, field, value)

\* app.py:367-377, the fields of the source form into the dict merged_form
RECURSIVE heap_form_fields(_, _, _, _)
heap_form_fields(h, merged_form, source_form, keys) ==
    IF keys = <<>> THEN h
    ELSE heap_form_fields(
           IF heap_isdict(h, h[source_form].d[keys[1]])
           THEN heap_form_dict(h, merged_form, keys[1], h[source_form].d[keys[1]])
           ELSE IF /\ heap_truthy(h, h[source_form].d[keys[1]])
                   /\ ~heap_truthy(h, dict_get(h[merged_form], keys[1], JNull))
           THEN heap_set(h, merged_form, keys[1], h[source_form].d[keys[1]])
           ELSE h,
           merged_form, source_form, Tail(keys))

\* app.py:364-378 for one extraction, m.at being source_form
heap_form_step(m, merged_form, reconciled, form_key) ==
    IF IsRaised(m.at) THEN Failed(m.h)
    ELSE IF ~heap_isdict(m.h, m.at) THEN Running(m.h)
    ELSE Running(heap_set(heap_form_fields(m.h, merged_form.a, m.at.a,
                                           key_order(m.h[m.at.a])),
                          reconciled.a, form_key, merged_form))

\* app.py:363-378, the loop over the extractions for a form without sections
RECURSIVE heap_form_loop(_, _, _, _, _, _)
heap_form_loop(run, merged_form, reconciled, exts, form_key, i) ==
    IF ~run.ok \/ i > Len(exts) THEN run
    ELSE heap_form_loop(
           heap_form_step(heap_or_dict(heap_get(Evaluated(run.h, exts[i]), form_key)),
                          merged_form, reconciled, form_key),
           merged_form, reconciled, exts, form_key, i + 1)

\* app.py:361-378, m.at being merged_form
heap_form_open(m, reconciled, exts, form_key) ==
    IF IsRaised(m.at) THEN Failed(m.h)
    ELSE IF ~heap_isdict(m.h, m.at) THEN Running(m.h)
    ELSE heap_form_loop(Running(m.h), m.at, reconciled, exts, form_key, 1)

\* app.py:360-378, a form without coverage sections
heap_form(run, reconciled, exts, form_key) ==
    IF ~run.ok THEN run
    ELSE heap_form_open(heap_or_dict(heap_get(Evaluated(run.h, reconciled), form_key)),
                        reconciled, exts, form_key)

\* app.py:384-390, the loop over the extractions for one top-level key
RECURSIVE heap_top_loop(_, _, _, _, _)
heap_top_loop(run, merged_top, exts, top_key, i) ==
    IF ~run.ok \/ i > Len(exts) THEN run
    ELSE heap_top_loop(
           heap_fold(heap_get_dict(Evaluated(run.h, exts[i]), top_key), merged_top),
           merged_top, exts, top_key, i + 1)

\* app.py:391
heap_top_close(run, merged_top, reconciled, top_key) ==
    IF ~run.ok THEN run
    ELSE Running(heap_set(run.h, reconciled.a, top_key, merged_top))

\* app.py:382-391, m.at being merged_top
heap_top_open(m, reconciled, exts, top_key) ==
    IF IsRaised(m.at) THEN Failed(m.h)
    ELSE IF ~heap_isdict(m.h, m.at) THEN Running(m.h)
    ELSE heap_top_close(heap_top_loop(Running(m.h), m.at, exts, top_key, 1),
                        m.at, reconciled, top_key)

\* app.py:380-391, one of insured, producer, endorsements, certificateHolder
heap_top(run, reconciled, exts, top_key) ==
    IF ~run.ok THEN run
    ELSE heap_top_open(heap_get_dict(Evaluated(run.h, reconciled), top_key),
                       reconciled, exts, top_key)

\* index of the first entry x of cs with x.get("name") == name, 0 if none
RECURSIVE heap_first_named(_, _, _, _)
heap_first_named(h, cs, name, j) ==
    IF j > Len(cs) THEN 0
    ELSE IF py_equals(heap_value(h, dict_get(h[cs[j].a], "name", JNull)),
                      heap_value(h, name))
         THEN j
    ELSE heap_first_named(h, cs, name, j + 1)

\* x.get raises on an entry that is not a dict
heap_all_dicts(h, cs) == \A j \in 1..Len(cs) : heap_isdict(h, cs[j])

\* app.py:398-402, cs being the items of reconciled.get("carriers", [])
heap_existing(h, cs, c, name) ==
    IF IsRaised(cs) THEN Failed(h)
    ELSE IF ~heap_all_dicts(h, cs.l) THEN Failed(h)
    ELSE IF heap_first_named(h, cs.l, name, 1) = 0 THEN Running(h)
    ELSE Running(heap_backfill(h, cs.l[heap_first_named(h, cs.l, name, 1)].a, c.a,
                               key_order(h[c.a])))

\* line 398, m.at being reconciled.get("carriers", [])
heap_existing_in(m, c, name) == heap_existing(m.h, heap_iter(m.h, m.at), c, name)

\* app.py:396-402, m.at being name
heap_carrier_named(m, reconciled, c) ==
    IF IsRaised(m.at) THEN Failed(m.h)
    ELSE IF ~heap_truthy(m.h, m.at) THEN Running(m.h)
    ELSE heap_existing_in(heap_get_list(Evaluated(m.h, reconciled), "carriers"),
                          c, m.at)

\* app.py:394-402, the carriers of one extraction, from the j-th on
RECURSIVE heap_carriers_of(_, _, _, _)
heap_carriers_of(run, reconciled, cs, j) ==
    IF ~run.ok \/ j > Len(cs) THEN run
    ELSE heap_carriers_of(
           heap_carrier_named(heap_get_or(Evaluated(run.h, cs[j]), "name", JStr("")),
                              reconciled, cs[j]),
           reconciled, cs, j + 1)

\* app.py:394, m.at being ext.get("carriers", [])
heap_carriers_in(m, reconciled) ==
    IF IsRaised(heap_iter(m.h, m.at)) THEN Failed(m.h)
    ELSE heap_carriers_of(Running(m.h), reconciled, heap_iter(m.h, m.at).l, 1)

\* app.py:393-402, the loop over the extractions
RECURSIVE heap_carriers(_, _, _, _)
heap_carriers(run, reconciled, exts, i) ==
    IF ~run.ok \/ i > Len(exts) THEN run
    ELSE heap_carriers(
           heap_carriers_in(heap_get_list(Evaluated(run.h, exts[i]), "carriers"),
                            reconciled),
           reconciled, exts, i + 1)

\* the four coverage sections of acord25 (app.py:339)
heap_sections(run, reconciled, exts) ==
    heap_section(
      heap_section(
        heap_section(
          heap_section(run, reconciled, exts, "acord25", "gl"),
          reconciled, exts, "acord25", "auto"),
        reconciled, exts, "acord25", "umbrella"),
      reconciled, exts, "acord25", "workersComp")

\* the forms without sections (app.py:340-342)
heap_forms(run, reconciled, exts) ==
    heap_form(
      heap_form(
        heap_form(run, reconciled, exts, "acord27"),
        reconciled, exts, "acord28"),
      reconciled, exts, "acord30")

\* the top-level keys (app.py:380)
heap_tops(run, reconciled, exts) ==
    heap_top(
      heap_top(
        heap_top(
          heap_top(run, reconciled, exts, "insured"),
          reconciled, exts, "producer"),
        reconciled, exts, "endorsements"),
      reconciled, exts, "certificateHolder")

\* app.py:336-404 on the objects reconciled and exts of the heap h: the heap
\* as the call leaves it, returning or raising
heap_preserve_fields(h, reconciled, exts) ==
    heap_carriers(
      heap_tops(heap_forms(heap_sections(Running(h), reconciled, exts),
                           reconciled, exts),
                reconciled, exts),
      reconciled, exts, 1)

\* The call _preserve_fields(reconciled, extractions) of line 423: the caller
\* holds the merge output, which json.loads has just built, and the source
\* extractions, each built by a json.loads of its own (app.py:316); m.at lists
\* them, the merge output first. The result is the heap after the call, with
\* the references the caller holds.
preserve_call(m) ==
    [at |-> m.at, run |-> heap_preserve_fields(m.h, m.at[1], Tail(m.at))]

preserve_objects(reconciled, exts) ==
    preserve_call(heap_load_all(Evaluated(<<>>, <<>>), <<reconciled>> \o exts))

sources_in(call) ==
    [i \in 1..(Len(call.at) - 1) |-> heap_value(call.run.h, call.at[i + 1])]

\* the source extractions as the caller sees them after the call
sources_after_preserve(reconciled, exts) == sources_in(preserve_objects(reconciled, exts))

merged_in(call) == heap_value(call.run.h, call.at[1])

\* the merge output as the caller sees it after the call
merged_after_preserve(reconciled, exts) == merged_in(preserve_objects(reconciled, exts))

returned_in(call) == call.run.ok

\* whether the call returned
preserve_returns(reconciled, exts) == returned_in(preserve_objects(reconciled, exts))

-----------------------------------------------------------------------------
(* app.py: the upstream calls and reconcile_extractions *)

\* The text of a model answer, as the pieces strip_fences and json.loads tell
\* apart: a fence (the three characters ```), a line break, other white
\* space, a word (a language tag, prose) and the payload, which is the text of
\* a JSON value or text json.loads rejects (NotJson), on one line or several.
NotJson == [k |-> "notjson"]
Fence == [k |-> "fence"]
Newline == [k |-> "nl"]
Blank == [k |-> "blank"]
Word(w) == [k |-> "word", s |-> w]
Payload(body, multi) == [k |-> "json", v |-> body, multi |-> multi]

\* a text: the pieces before the payload, the payload's value, whether the
\* payload spans several lines, the pieces after it
Text(pre, body, multi, post) ==
    [k |-> "text", pre |-> pre, body |-> body, multi |-> multi, post |-> post]

\* a payload and nothing else, on one line
BareText(body) == Text(<<>>, body, FALSE, <<>>)

\* the pieces of a text in order
Pieces(t) == t.pre \o <<Payload(t.body, t.multi)>> \o t.post

\* a str value of the program, as its pieces
Raw(q) == [k |-> "raw", q |-> q]

\* An upstream call either raises or answers a text.
CallError == [kind |-> "error"]
Answer(text) == [kind |-> "answer", text |-> text]
NoReply == [kind |-> "none"]

IsSpace(piece) == piece.k \in {"nl", "blank"}

\* q.lstrip(), q.rstrip(), q.strip()
RECURSIVE raw_lstrip(_)
raw_lstrip(q) ==
    IF q /= <<>> /\ IsSpace(Head(q)) THEN raw_lstrip(Tail(q)) ELSE q

RECURSIVE raw_rstrip(_)
raw_rstrip(q) ==
    IF q /= <<>> /\ IsSpace(q[Len(q)]) THEN raw_rstrip(SubSeq(q, 1, Len(q) - 1))
    ELSE q

raw_strip(q) == raw_rstrip(raw_lstrip(q))

\* "\n" in q
has_newline(q) ==
    \E i \in 1..Len(q) : q[i].k = "nl" \/ (q[i].k = "json" /\ q[i].multi)

\* q.split("\n", 1)[1] for a q that holds a line break: what follows the first
\* one; a payload cut after its first line is a word
RECURSIVE after_first_newline(_)
after_first_newline(q) ==
    IF Head(q).k = "nl" THEN Tail(q)
    ELSE IF Head(q).k = "json" /\ Head(q).multi THEN <<Word("rest")>> \o Tail(q)
    ELSE after_first_newline(Tail(q))

\* app.py:301-302
strip_open(q) ==
    IF q /= <<>> /\ Head(q).k = "fence"
    THEN (IF has_newline(q) THEN after_first_newline(q) ELSE Tail(q))
    ELSE q

\* app.py:303-304
strip_close(q) ==
    IF q /= <<>> /\ q[Len(q)].k = "fence" THEN SubSeq(q, 1, Len(q) - 1) ELSE q

\* strip_fences(text), app.py:299-305
strip_fences(t) == Raw(raw_strip(strip_close(strip_open(raw_strip(Pieces(t))))))

\* call_claude(...), app.py:308-315: the call raises, or the stripped text
call_claude(r) == IF r.kind = "error" THEN Raised ELSE strip_fences(r.text)

\* json.loads(raw): the value of a text that is one JSON value, white space
\* around it allowed; ValueError on any other text
json_loads(raw) ==
    IF IsRaised(raw) THEN Raised
    ELSE LET q == raw_strip(raw.q)
         IN  IF Len(q) = 1 /\ q[1].k = "json" /\ q[1].v /= NotJson THEN q[1].v
             ELSE Raised

\* the try block of reconcile_extractions, app.py:421-423
try_merge(r, exts) ==
    LET result == json_loads(call_claude(r))
    IN  IF IsRaised(result) THEN Raised ELSE _preserve_fields(result, exts)

\* reconcile_extractions without its except clause: the failure propagates
reconcile_extractions_noexcept(r, exts) == try_merge(r, exts)

\* reconcile_extractions(client, extractions, classifications), app.py:407-426
reconcile_extractions(r, exts) ==
    LET out == try_merge(r, exts)
    IN  IF IsRaised(out)
        THEN (IF Len(exts) > 0 THEN exts[1] ELSE EmptyDict)
        ELSE out

\* app.py:550 with >= in place of >: one extraction is sent to the merge too
needs_merge_always(exts) == Len(exts) >= 1

\* app.py:550, len(all_extractions) > 1
needs_merge(exts) == Len(exts) > 1

-----------------------------------------------------------------------------
(* The inputs: uploaded files, what the extraction call reads from each, and *)
(* what the upstream merge call may answer. All follow the JSON template of  *)
(* EXTRACT_PROMPT (app.py:94-184), cut down to the members the merge and the  *)
(* form pipeline read.                                                       *)

Carrier(letter, name, naic) ==
    JDict([letter |-> JStr(letter), name |-> JStr(name), naic |-> JStr(naic)])

\* a binder: general liability with carrier A, one limit, one endorsement
BinderDoc ==
    JDict([
      insured |-> JDict([name |-> JStr("Opal LLC"), address |-> JStr("")]),
      carriers |-> JList(<<Carrier("A", "Acme Insurance", "")>>),
      acord25 |-> JDict([
        certificateNumber |-> JStr("CN-1"),
        gl |-> JDict([insurerLetter |-> JStr("A"),
                      policyNumber |-> JStr("GL-100"),
                      limits |-> JDict([eachOccurrence |-> JNum(1000000),
                                        generalAggregate |-> JNull])]),
        umbrella |-> JNull,
        certificateHolder |-> JDict([name |-> JStr("Opal LLC")]),
        endorsements |-> JDict([additionalInsured |-> JBool(TRUE)])]),
      acord27 |-> JNull,
      acord28 |-> JNull,
      acord30 |-> JNull])

\* a declarations page of the same insured: the other limit, an umbrella with
\* carrier B, the carrier of the binder spelled differently
DecDoc ==
    JDict([
      insured |-> JDict([name |-> JStr(""), address |-> JStr("1 Main St")]),
      carriers |-> JList(<<Carrier("A", "acme insurance ", "11111"),
                           Carrier("B", "Zenith Mutual", "")>>),
      acord25 |-> JDict([
        certificateNumber |-> JStr(""),
        gl |-> JDict([insurerLetter |-> JStr("A"),
                      policyNumber |-> JStr(""),
                      limits |-> JDict([eachOccurrence |-> JNull,
                                        generalAggregate |-> JNum(2000000)])]),
        umbrella |-> JDict([insurerLetter |-> JStr("B"),
                            policyNumber |-> JStr("UM-7")]),
        certificateHolder |-> JDict([name |-> JStr("")]),
        endorsements |-> EmptyDict]),
      acord27 |-> JNull,
      acord28 |-> JNull,
      acord30 |-> JNull])

\* a property policy: no liability block, an acord27 block, its carrier as A
PropertyDoc ==
    JDict([
      insured |-> JDict([name |-> JStr("Opal LLC"), address |-> JStr("")]),
      carriers |-> JList(<<Carrier("A", "Zenith Mutual", "")>>),
      acord25 |-> JNull,
      acord27 |-> JDict([insurerLetter |-> JStr("A"),
                         policyNumber |-> JStr("PR-9"),
                         coverages |-> JDict([building |-> JNum(500000)])]),
      acord28 |-> JNull,
      acord30 |-> JNull])

FileKinds == {"binder.pdf", "dec.pdf", "property.pdf"}

\* what a successful extraction call reads from a file
ExtractionOf(f) ==
    CASE f = "binder.pdf" -> BinderDoc
      [] f = "dec.pdf" -> DecDoc
      [] f = "property.pdf" -> PropertyDoc

\* what a successful classification call answers for a file
DocTypeOf(f) ==
    CASE f = "binder.pdf" -> "binder"
      [] f = "dec.pdf" -> "policy_declaration"
      [] f = "property.pdf" -> "policy_declaration"

\* an answer of the merge call that follows the RECONCILE_PROMPT for the
\* general-liability section but drops the second carrier, leaves the umbrella's
\* insurer letter and the certificate number empty and the endorsement false
LossyMerge ==
    JDict([
      insured |-> JDict([name |-> JStr("Opal LLC"), address |-> JStr("1 Main St")]),
      carriers |-> JList(<<Carrier("A", "Acme Insurance", "")>>),
      acord25 |-> JDict([
        certificateNumber |-> JStr(""),
        gl |-> JDict([insurerLetter |-> JStr("A"),
                      policyNumber |-> JStr("GL-100"),
                      limits |-> JDict([eachOccurrence |-> JNum(1000000),
                                        generalAggregate |-> JNull])]),
        umbrella |-> JDict([insurerLetter |-> JStr(""),
                            policyNumber |-> JStr("UM-7")]),
        certificateHolder |-> JDict([name |-> JStr("")]),
        endorsements |-> JDict([additionalInsured |-> JBool(FALSE)])]),
      acord27 |-> JNull,
      acord28 |-> JNull,
      acord30 |-> JNull])

\* an answer with every block and the carriers null
NullMerge ==
    JDict([
      insured |-> JNull,
      carriers |-> JNull,
      acord25 |-> JNull,
      acord27 |-> JNull,
      acord28 |-> JNull,
      acord30 |-> JNull])

\* how an answer may dress its payload: pieces before, pieces after, payload
\* on several lines or on one
Wrapping(pre, multi, post) == [pre |-> pre, multi |-> multi, post |-> post]
Wrap(w, body) == Text(w.pre, body, w.multi, w.post)

Wrappings ==
    {\* ```json, the payload on lines of its own, ```
     Wrapping(<<Fence, Word("json"), Newline>>, TRUE, <<Newline, Fence>>),
     \* the same with blank lines around and no language tag
     Wrapping(<<Newline, Fence, Newline>>, FALSE, <<Newline, Fence, Blank, Newline>>),
     \* an opening fence only
     Wrapping(<<Fence, Word("json"), Newline>>, FALSE, <<>>),
     \* fences and payload on one line
     Wrapping(<<Fence>>, FALSE, <<Fence>>),
     \* fences on the payload's first and last line
     Wrapping(<<Fence>>, TRUE, <<Fence>>),
     \* fences and a language tag on the payload's line
     Wrapping(<<Fence, Word("json")>>, FALSE, <<Fence>>),
     \* prose before the fenced payload
     Wrapping(<<Word("Here"), Newline, Fence, Word("json"), Newline>>, FALSE,
              <<Newline, Fence>>),
     \* prose after the fenced payload
     Wrapping(<<Fence, Word("json"), Newline>>, FALSE,
              <<Newline, Fence, Newline, Word("Done")>>)}

\* the answers the merge call may give for the extractions exts: it raises,
\* answers text that is not JSON, JSON that is not an object, one of the source
\* extractions as it is, the first of them dressed in one of the ways above, or
\* one of the two records above
Replies(exts) ==
    {CallError,
     Answer(BareText(NotJson)),
     Answer(BareText(EmptyList)),
     Answer(BareText(LossyMerge)),
     Answer(BareText(NullMerge))}
    \cup {Answer(BareText(exts[i])) : i \in 1..Len(exts)}
    \cup {Answer(Wrap(w, exts[1])) : w \in Wrappings}

-----------------------------------------------------------------------------
(* acord_filler.py: determine_forms *)

FormNumbers == <<"25", "27", "28", "30">>

FormKey(num) ==
    CASE num = "25" -> "acord25"
      [] num = "27" -> "acord27"
      [] num = "28" -> "acord28"
      [] num = "30" -> "acord30"

\* data.get("acordNN") is not None: it raises on a value that is not a dict
block_not_none(d, num) ==
    IF ~IsDict(d) THEN Raised ELSE JBool(~IsNone(dict_get(d, FormKey(num), JNull)))

\* determine_forms(data), acord_filler.py:884-894: the list of forms, or
\* Raised when data is not a dict
determine_forms(d) ==
    LET Listed(num) == block_not_none(d, num) = JBool(TRUE)
    IN  IF ~IsDict(d) THEN Raised ELSE SelectSeq(FormNumbers, Listed)

-----------------------------------------------------------------------------
(* Python string operations the filler applies (str methods) *)

DigitChars == "0123456789"

\* the position of the character c in the string s, 0 when it is not there
RECURSIVE str_find_char(_, _, _)
str_find_char(c, s, i) ==
    IF i > Len(s) THEN 0
    ELSE IF SubSeq(s, i, i) = c THEN i
    ELSE str_find_char(c, s, i + 1)

CharsOf(codes) == {chr(n) : n \in codes}

\* c.isspace(): what str.strip() removes and str.split() splits at
SpaceChars == CharsOf((9..13) \cup (28..32) \cup {133, 160})

\* the white space int() and float() skip around a number: U+001C to U+001F
\* are not part of it
NumberSpaceChars == CharsOf((9..13) \cup {32, 133, 160})

\* the characters with c.isdigit(): the decimal digits and the superscripts
\* U+00B2, U+00B3, U+00B9
IsdigitChars == CharsOf((48..57) \cup {178, 179, 185})

\* the letters with another lower-case form
UpperChars == CharsOf((65..90) \cup (192..214) \cup (216..222))

\* the letters whose upper-case form is another character
LowerChars == CharsOf((97..122) \cup (224..246) \cup (248..254))

LowerOf == [c \in UpperChars |-> chr(ord(c) + 32)]
UpperOf == [c \in LowerChars |-> chr(ord(c) - 32)]

lower_char(c) == IF c \in UpperChars THEN LowerOf[c] ELSE c

\* c.upper() of one character: the upper-case form of U+00DF is "SS"
upper_char(c) ==
    IF c \in LowerChars THEN UpperOf[c]
    ELSE IF c = chr(223) THEN "SS"
    ELSE c

\* s.lower()
RECURSIVE str_lower(_)
str_lower(s) == IF s = "" THEN "" ELSE lower_char(Head(s)) \o str_lower(Tail(s))

\* s.upper()
RECURSIVE str_upper(_)
str_upper(s) == IF s = "" THEN "" ELSE upper_char(Head(s)) \o str_upper(Tail(s))

is_space(c) == c \in SpaceChars

is_digit_char(c) == str_find_char(c, DigitChars, 1) > 0

\* s.lstrip()
RECURSIVE str_lstrip(_)
str_lstrip(s) ==
    IF s /= "" /\ is_space(Head(s)) THEN str_lstrip(Tail(s)) ELSE s

\* s.rstrip()
RECURSIVE str_rstrip(_)
str_rstrip(s) ==
    IF s /= "" /\ is_space(SubSeq(s, Len(s), Len(s)))
    THEN str_rstrip(SubSeq(s, 1, Len(s) - 1))
    ELSE s

\* s.strip()
str_strip(s) == str_rstrip(str_lstrip(s))

\* s is made of decimal digits
RECURSIVE all_digits(_)
all_digits(s) == s = "" \/ (is_digit_char(Head(s)) /\ all_digits(Tail(s)))

\* s.isdigit()
RECURSIVE all_isdigit(_)
all_isdigit(s) == s = "" \/ (Head(s) \in IsdigitChars /\ all_isdigit(Tail(s)))

str_isdigit(s) == s /= "" /\ all_isdigit(s)

\* s without the white space that int() and float() skip around a number
RECURSIVE number_lstrip(_)
number_lstrip(s) ==
    IF s /= "" /\ Head(s) \in NumberSpaceChars THEN number_lstrip(Tail(s)) ELSE s

RECURSIVE number_rstrip(_)
number_rstrip(s) ==
    IF s /= "" /\ SubSeq(s, Len(s), Len(s)) \in NumberSpaceChars
    THEN number_rstrip(SubSeq(s, 1, Len(s) - 1))
    ELSE s

number_strip(s) == number_rstrip(number_lstrip(s))

\* s.replace(c, by) for a single character c: in the first half of s, then in
\* the other
RECURSIVE str_replace(_, _, _)
str_replace(s, c, by) ==
    IF Len(s) <= 1 THEN (IF s = c THEN by ELSE s)
    ELSE str_replace(SubSeq(s, 1, Len(s) \div 2), c, by)
         \o str_replace(SubSeq(s, Len(s) \div 2 + 1, Len(s)), c, by)

\* s.split(c) for a single character c: the pieces between the separators,
\* piece being what precedes s in its first piece. The first half of s is
\* split, and the other half goes on from the last of its pieces.
RECURSIVE str_split(_, _, _)
split_on(pieces, s, c) ==
    SubSeq(pieces, 1, Len(pieces) - 1) \o str_split(s, c, pieces[Len(pieces)])

str_split(s, c, piece) ==
    IF s = "" THEN <<piece>>
    ELSE IF Len(s) = 1 THEN (IF s = c THEN <<piece, "">> ELSE <<piece \o s>>)
    ELSE split_on(str_split(SubSeq(s, 1, Len(s) \div 2), c, piece),
                  SubSeq(s, Len(s) \div 2 + 1, Len(s)), c)

\* s.split(): the runs of characters between white space
RECURSIVE str_tokens(_, _)
str_tokens(s, piece) ==
    IF s = "" THEN (IF piece = "" THEN <<>> ELSE <<piece>>)
    ELSE IF is_space(Head(s))
         THEN (IF piece = "" THEN <<>> ELSE <<piece>>) \o str_tokens(Tail(s), "")
    ELSE str_tokens(Tail(s), piece \o Head(s))

\* sep.join(q)
RECURSIVE str_join(_, _)
str_join(sep, q) ==
    IF q = <<>> THEN ""
    ELSE IF Len(q) = 1 THEN q[1]
    ELSE q[1] \o sep \o str_join(sep, Tail(q))

\* sub in s
str_contains(sub, s) ==
    \E i \in 1..(Len(s) - Len(sub) + 1) : SubSeq(s, i, i + Len(sub) - 1) = sub

-----------------------------------------------------------------------------
(* acord_filler.py: money formatter, accessors, presence predicates *)

Digit(n) ==
    CASE n = 0 -> "0" [] n = 1 -> "1" [] n = 2 -> "2" [] n = 3 -> "3"
      [] n = 4 -> "4" [] n = 5 -> "5" [] n = 6 -> "6" [] n = 7 -> "7"
      [] n = 8 -> "8" [] n = 9 -> "9"

\* the decimal digits of n >= 0
RECURSIVE Decimal(_)
Decimal(n) == IF n < 10 THEN Digit(n) ELSE Decimal(n \div 10) \o Digit(n % 10)

\* three digits of 0 <= n < 1000, zero padded
Pad3(n) == Digit(n \div 100) \o Digit((n \div 10) % 10) \o Digit(n % 10)

\* f"{n:,}" for an integer n >= 0
RECURSIVE Grouped(_)
Grouped(n) ==
    IF n < 1000 THEN Decimal(n)
    ELSE Grouped(n \div 1000) \o "," \o Pad3(n % 1000)

\* f"{int(n):,}" for an integer n
format_int(n) == IF n < 0 THEN "-" \o Grouped(-n) ELSE Grouped(n)

\* str(n) for an integer n
format_sign(n) == IF n < 0 THEN "-" \o Decimal(-n) ELSE Decimal(n)

\* the decimal digits of the fraction num / den, for num < den, den = 10^k:
\* k digits, zero padded on the left
RECURSIVE FracDigits(_, _)
FracDigits(num, den) ==
    IF den = 1 THEN ""
    ELSE FracDigits(num \div 10, den \div 10) \o Digit(num % 10)

\* s without its trailing zeros
RECURSIVE strip_zeros(_)
strip_zeros(s) ==
    IF s /= "" /\ SubSeq(s, Len(s), Len(s)) = "0"
    THEN strip_zeros(SubSeq(s, 1, Len(s) - 1))
    ELSE s

\* repr(x) of a finite float with the decimal digits num / den, num > 0: the
\* digits of num without trailing zeros are the shortest that read back as
\* the same float (num has at most ten), and point is the place of the
\* decimal point counted from their first digit. Python writes the exponent
\* form when point is below -3, that is under 0.0001: 0.00001 is 1e-05,
\* 0.00000015 is 1.5e-07. (The other exponent form, from 1e16 on, lies beyond
\* the integers the model computes with.)
float_digits(num, den) ==
    LET sig == strip_zeros(Decimal(num))
        point == Len(Decimal(num)) - (Len(Decimal(den)) - 1)
        frac == strip_zeros(FracDigits(num % den, den))
    IN  IF point <= -4
        THEN Head(sig) \o (IF Len(sig) > 1 THEN "." \o Tail(sig) ELSE "")
             \o "e-" \o (IF 1 - point < 10 THEN "0" ELSE "") \o Decimal(1 - point)
        ELSE Decimal(num \div den) \o "." \o (IF frac = "" THEN "0" ELSE frac)

\* repr(x) of a float
float_repr(x) ==
    CASE x.k = "nan" -> "nan"
      [] x.k = "inf" -> (IF x.neg THEN "-inf" ELSE "inf")
      [] x.k = "real" ->
            (IF x.neg THEN "-" ELSE "")
                \o (IF x.num = 0 THEN "0.0" ELSE float_digits(x.num, x.den))

HexDigits == "0123456789abcdef"

\* two hexadecimal digits of n < 256
hex2(n) ==
    SubSeq(HexDigits, (n \div 16) + 1, (n \div 16) + 1)
        \o SubSeq(HexDigits, (n % 16) + 1, (n % 16) + 1)

\* the characters repr writes as \xNN: the controls other than tab, newline
\* and return, U+007F to U+00A0 and U+00AD
HexEscaped == CharsOf(((1..31) \ {9, 10, 13}) \cup (127..160) \cup {173})

\* one character of repr(s) inside the quote marks
repr_char(c, quote) ==
    IF c = "\\" THEN "\\\\"
    ELSE IF c = quote THEN "\\" \o c
    ELSE IF c = "\t" THEN "\\t"
    ELSE IF c = "\n" THEN "\\n"
    ELSE IF c = "\r" THEN "\\r"
    ELSE IF c \in HexEscaped THEN "\\x" \o hex2(ord(c))
    ELSE c

RECURSIVE repr_chars(_, _)
repr_chars(s, quote) ==
    IF s = "" THEN "" ELSE repr_char(Head(s), quote) \o repr_chars(Tail(s), quote)

\* the quote marks of repr(s): double ones when s has a single quote mark and
\* no double one
repr_quote(s) ==
    IF str_find_char("'", s, 1) > 0 /\ str_find_char("\"", s, 1) = 0 THEN "\"" ELSE "'"

\* repr(s) of a str
str_repr(s) == repr_quote(s) \o repr_chars(s, repr_quote(s)) \o repr_quote(s)

\* repr(x) and str(x) of a JSON value; repr lists the items of a dict in
\* insertion order
RECURSIVE py_repr(_)
RECURSIVE py_repr_items(_)
RECURSIVE py_repr_pairs(_, _)
py_repr_items(q) ==
    IF q = <<>> THEN ""
    ELSE IF Len(q) = 1 THEN py_repr(q[1])
    ELSE py_repr(q[1]) \o ", " \o py_repr_items(Tail(q))

py_repr_pairs(f, keys) ==
    IF keys = <<>> THEN ""
    ELSE str_repr(keys[1]) \o ": " \o py_repr(f[keys[1]])
         \o (IF Len(keys) = 1 THEN "" ELSE ", " \o py_repr_pairs(f, Tail(keys)))

py_repr(x) ==
    CASE x.k = "null" -> "None"
      [] x.k = "str" -> str_repr(x.s)
      [] x.k = "num" -> format_sign(x.n)
      [] x.k = "bool" -> (IF x.b THEN "True" ELSE "False")
      [] x.k \in {"real", "inf", "nan"} -> float_repr(x)
      [] x.k = "list" -> "[" \o py_repr_items(x.l) \o "]"
      [] x.k = "dict" -> "{" \o py_repr_pairs(x.d, key_order(x)) \o "}"

\* str(x): JStr of the text, Raised when evaluating x raised
py_str(x) ==
    IF IsRaised(x) THEN Raised
    ELSE IF x.k = "str" THEN x
    ELSE JStr(py_repr(x))

\* the outcomes of float(val) that are not a float
ValueError == [k |-> "ValueError"]
TypeError == [k |-> "TypeError"]

\* the value of a run of decimal digits
RECURSIVE digits_value(_, _)
digits_value(s, acc) ==
    IF s = "" THEN acc
    ELSE digits_value(Tail(s), 10 * acc + (str_find_char(Head(s), DigitChars, 1) - 1))

RECURSIVE pow10(_)
pow10(n) == IF n = 0 THEN 1 ELSE 10 * pow10(n - 1)

\* the digits of a digit part with its single underscores removed, "" when
\* the text is not one: an underscore stands between two digits
RECURSIVE int_digits(_, _)
int_digits(s, after_digit) ==
    IF s = "" THEN ""
    ELSE IF is_digit_char(Head(s))
         THEN (IF Tail(s) = "" THEN Head(s)
               ELSE LET rest == int_digits(Tail(s), TRUE)
                    IN  IF rest = "" THEN "" ELSE Head(s) \o rest)
    ELSE IF Head(s) = "_" /\ after_digit /\ Tail(s) /= ""
              /\ is_digit_char(Head(Tail(s)))
         THEN int_digits(Tail(s), FALSE)
    ELSE ""

\* a digit part or nothing
digits_or_none(s) == s = "" \/ int_digits(s, FALSE) /= ""

\* the index of the first e or E of s, 0 when it has none
RECURSIVE exponent_at(_, _)
exponent_at(s, i) ==
    IF i > Len(s) THEN 0
    ELSE IF SubSeq(s, i, i) \in {"e", "E"} THEN i
    ELSE exponent_at(s, i + 1)

\* the float of the digits whole.frac times ten to the power e
float_of_scaled(neg, digits, e) ==
    IF e >= 0 THEN JReal(neg, digits_value(digits, 0) * pow10(e), 1)
    ELSE JReal(neg, digits_value(digits, 0), pow10(-e))

\* the mantissa whole[.frac] with the exponent e: a digit on one side of the
\* point at least
float_of_digits(neg, whole, frac, e) ==
    IF digits_or_none(whole) /\ digits_or_none(frac) /\ whole \o frac /= ""
    THEN float_of_scaled(neg, int_digits(whole, FALSE) \o int_digits(frac, FALSE),
                         e - Len(int_digits(frac, FALSE)))
    ELSE ValueError

float_of_parts(neg, parts, e) ==
    IF Len(parts) > 2 THEN ValueError
    ELSE float_of_digits(neg, parts[1], IF Len(parts) = 2 THEN parts[2] ELSE "", e)

\* the exponent text after e: a sign and a digit part
float_of_exponent(neg, mantissa, ex) ==
    LET body == IF ex /= "" /\ Head(ex) \in {"+", "-"} THEN Tail(ex) ELSE ex
    IN  IF int_digits(body, FALSE) = "" THEN ValueError
        ELSE float_of_parts(neg, str_split(mantissa, ".", ""),
                            (IF ex /= "" /\ Head(ex) = "-" THEN -1 ELSE 1)
                                * digits_value(int_digits(body, FALSE), 0))

float_of_number(neg, body, at) ==
    IF at = 0 THEN float_of_parts(neg, str_split(body, ".", ""), 0)
    ELSE float_of_exponent(neg, SubSeq(body, 1, at - 1), SubSeq(body, at + 1, Len(body)))

\* float(s) for a string s: white space around, a sign, then inf, infinity or
\* nan in any letter case, or a decimal number: digits with at most one point,
\* an exponent after e or E, single underscores between digits. The float is
\* kept as the decimal fraction the text denotes, and a number beyond the
\* integers of TLC is not evaluated.
float_of_body(neg, body, word) ==
    IF word \in {"inf", "infinity"} THEN JInf(neg)
    ELSE IF word = "nan" THEN JNaN
    ELSE float_of_number(neg, body, exponent_at(body, 1))

float_of_signed(neg, body) == float_of_body(neg, body, str_lower(body))

float_of_stripped(t) ==
    float_of_signed(t /= "" /\ Head(t) = "-",
                    IF t /= "" /\ Head(t) \in {"+", "-"} THEN Tail(t) ELSE t)

float_of_text(s) == float_of_stripped(number_strip(s))

\* float(val)
py_float(val) ==
    CASE val.k = "num" -> JReal(val.n < 0, IF val.n < 0 THEN -val.n ELSE val.n, 1)
      [] val.k = "bool" -> JReal(FALSE, IF val.b THEN 1 ELSE 0, 1)
      [] val.k \in {"real", "inf", "nan"} -> val
      [] val.k = "str" -> float_of_text(val.s)
      [] val.k \in {"null", "dict", "list"} -> TypeError

\* floor(log2(n / d)) for n, d > 0: the binary exponent of the float n / d
RECURSIVE binary_exponent(_, _)
binary_exponent(n, d) ==
    IF n >= 2 * d THEN binary_exponent(n, 2 * d) + 1
    ELSE IF n < d THEN binary_exponent(2 * n, d) - 1
    ELSE 0

\* d without its factors of two, and the number of those factors
RECURSIVE odd_part(_)
odd_part(d) == IF d % 2 = 0 THEN odd_part(d \div 2) ELSE d

RECURSIVE twos(_)
twos(d) == IF d % 2 = 0 THEN twos(d \div 2) + 1 ELSE 0

\* 2^s modulo m, by squaring 2^(s \div 2)
RECURSIVE power_mod(_, _)
square_mod(h, s, m) == (h * h * (IF s % 2 = 1 THEN 2 ELSE 1)) % m

power_mod(s, m) == IF s = 0 THEN 1 % m ELSE square_mod(power_mod(s \div 2, m), s, m)

\* r * 2^s modulo m, for r < m
shift_mod(r, s, m) == (r * power_mod(s, m)) % m

\* A Python float is the binary double nearest to the decimal it was read
\* from: 53 significant bits, so num / den is scaled by 2^(52 - exponent) and
\* rounded to a whole number. With den = 2^k * m, m odd, the scaled value is
\* num * 2^s / m for s = 52 - exponent - k, and its remainder modulo m tells
\* on which side of num / den the double lies: 1 above, -1 below, 0 when the
\* double is num / den exactly. (A remainder of exactly m / 2 cannot occur, m
\* being odd.)
float_side(num, den) ==
    LET m == odd_part(den)
        s == 52 - binary_exponent(num, den) - twos(den)
        r == shift_mod(num % m, s, m)
    IN  IF r = 0 THEN 0 ELSE IF 2 * r > m THEN 1 ELSE -1

\* f"{n:,.2f}" for a finite float n: the hundredths nearest to the binary
\* value of n. Off a decimal tie that is the hundredth nearest to num / den.
\* At a tie (a 5 in the third place and nothing after it) the double decides:
\* 2.675 is stored below 2.675 and prints as 2.67, 0.005 is stored above and
\* prints as 0.01, 0.125 is stored exactly and goes to the even hundredth,
\* 0.12.
format_2f(n) ==
    LET q == n.den \div 100
        cents == IF n.den <= 100 THEN n.num * (100 \div n.den)
                 ELSE LET base == n.num \div q
                          r == n.num % q
                          side == float_side(n.num, n.den)
                      IN  IF 2 * r > q THEN base + 1
                          ELSE IF 2 * r < q THEN base
                          ELSE IF side > 0 THEN base + 1
                          ELSE IF side < 0 THEN base
                          ELSE base + (base % 2)
    IN  (IF n.neg THEN "-" ELSE "") \o Grouped(cents \div 100) \o "."
        \o Digit((cents \div 10) % 10) \o Digit(cents % 10)

\* the two formats of _fm for a finite float n: f"{int(n):,}" when n is whole,
\* f"{n:,.2f}" otherwise
fm_amount(n) ==
    IF n.num % n.den = 0
    THEN JStr(format_int((IF n.neg THEN -1 ELSE 1) * (n.num \div n.den)))
    ELSE JStr(format_2f(n))

\* the try block of _fm, acord_filler.py:174-181, n being float(val). int(n)
\* raises ValueError for nan, which the except clause catches, and
\* OverflowError for an infinity, which it does not catch.
fm_float(val, n) ==
    IF n \in {ValueError, TypeError} THEN py_str(val)
    ELSE IF n.k = "nan" THEN py_str(val)
    ELSE IF n.k = "inf" THEN Raised
    ELSE IF n.num = 0 THEN JStr("Excluded")
    ELSE fm_amount(n)

\* _fm(val), acord_filler.py:168-181
_fm(val) ==
    IF IsRaised(val) THEN Raised
    ELSE IF IsNone(val) \/ val = JStr("") THEN JStr("")
    ELSE IF val.k = "str" /\ str_lower(val.s) \in {"excluded", "excl", "n/a"}
         THEN JStr("Excluded")
    ELSE fm_float(val, py_float(val))

\* isinstance(v, (int, float)): numbers and booleans
is_number(v) == v.k \in {"num", "bool", "real", "inf", "nan"}

\* the record _parse_address returns
Address(line1, line2, city, state, zip) ==
    [k |-> "address", line1 |-> line1, line2 |-> line2, city |-> city,
     state |-> state, zip |-> zip]

\* [p.strip() for p in parts]
strip_all(parts) == [i \in 1..Len(parts) |-> str_strip(parts[i])]

\* the branch of _parse_address for three parts or more, lines 139-151, last
\* being parts[-1].split()
address_of_many(parts, n, last, m) ==
    Address(parts[1],
            IF n > 3 THEN str_strip(str_join(", ", SubSeq(parts, 2, n - 2)))
            ELSE "",
            parts[n - 1],
            IF m >= 2 /\ (str_isdigit(last[m]) \/ Len(last[m]) >= 5) THEN last[1]
            ELSE IF m = 1 /\ str_isdigit(last[1]) THEN ""
            ELSE parts[n],
            IF m >= 2 /\ (str_isdigit(last[m]) \/ Len(last[m]) >= 5) THEN last[m]
            ELSE IF m = 1 /\ str_isdigit(last[1]) THEN last[1]
            ELSE "")

\* the branch for two parts, lines 152-157
address_of_two(parts, last, m) ==
    IF m >= 3
    THEN Address(parts[1], "", str_join(" ", SubSeq(last, 1, m - 2)),
                 last[m - 1], last[m])
    ELSE Address(parts[1], "", parts[2], "", "")

address_of_last(parts, n, last) ==
    IF n >= 3 THEN address_of_many(parts, n, last, Len(last))
    ELSE address_of_two(parts, last, Len(last))

address_of_parts(text, parts, n) ==
    IF n >= 2 THEN address_of_last(parts, n, str_tokens(parts[n], ""))
    ELSE Address(text, "", "", "", "")

address_of_split(text, parts) == address_of_parts(text, parts, Len(parts))

address_of_text(text) == address_of_split(text, strip_all(str_split(text, ",", "")))

\* _parse_address(addr), acord_filler.py:130-158, for a JSON value addr: a
\* truthy value that is not a string has no replace method and raises
_parse_address(addr) ==
    IF IsRaised(addr) THEN Raised
    ELSE IF ~Truthy(addr) THEN Address("", "", "", "", "")
    ELSE IF addr.k /= "str" THEN Raised
    ELSE address_of_text(str_replace(str_replace(addr.s, "\n", ", "), "\r", ""))

\* _al1 .. _azp, acord_filler.py:160-164
address_field(r, part) == IF IsRaised(r) THEN Raised ELSE JStr(r[part])

address_part(a, part) == address_field(_parse_address(a), part)

_al1(a) == address_part(a, "line1")
_al2(a) == address_part(a, "line2")
_aci(a) == address_part(a, "city")
_ast(a) == address_part(a, "state")
_azp(a) == address_part(a, "zip")

\* (d.get("acord25") or {})
acord25_of(d) == py_or(dict_get(d, "acord25", JNull), EmptyDict)

\* _gl(d, k), acord_filler.py:204
_gl(d, k) == dict_get(dict_get(acord25_of(d), "gl", EmptyDict), k, JStr(""))

\* _glL(d, k), acord_filler.py:205
_glL(d, k) ==
    _fm(dict_get(dict_get(dict_get(acord25_of(d), "gl", EmptyDict),
                          "limits", EmptyDict), k, JNull))

\* the shared body of _au, _um, _wc, acord_filler.py:206-214
section_value(d, section, k) ==
    LET v == dict_get(dict_get(acord25_of(d), section, EmptyDict), k, JStr(""))
    IN  IF IsRaised(v) THEN Raised
        ELSE IF is_number(v) THEN _fm(v) ELSE v

_au(d, k) == section_value(d, "auto", k)
_um(d, k) == section_value(d, "umbrella", k)
_wc(d, k) == section_value(d, "workersComp", k)

\* bool(x), Raised when evaluating x raised
py_bool(x) == IF IsRaised(x) THEN Raised ELSE JBool(Truthy(x))

\* _has_gl(d), acord_filler.py:217-218
_has_gl(d) ==
    py_bool(py_or(_gl(d, "policyNumber"),
                  py_or(_glL(d, "eachOccurrence"), _glL(d, "generalAggregate"))))

\* _has_auto(d), acord_filler.py:220-221
_has_auto(d) == py_bool(py_or(_au(d, "policyNumber"), _au(d, "combinedSingleLimit")))

\* _has_umbrella(d), acord_filler.py:223-224
_has_umbrella(d) == py_bool(py_or(_um(d, "policyNumber"), _um(d, "eachOccurrence")))

\* _has_wc(d), acord_filler.py:226-227
_has_wc(d) == py_bool(py_or(_wc(d, "policyNumber"), _wc(d, "eachAccident")))

\* the resolver of GeneralLiability_CoverageIndicator_A, acord_filler.py:295
GeneralLiability_CoverageIndicator_A(d) == _has_gl(d)

-----------------------------------------------------------------------------
(* acord_filler.py: the accessors and the field tables (lines 185-736) *)

\* the dict a literal {k1: v1, k2: v2, ...} builds from its items in order: a
\* later item replaces an earlier one with the same key
dict_of(items) ==
    [key \in {items[i][1] : i \in DOMAIN items} |->
        LET last == CHOOSE i \in DOMAIN items :
                        /\ items[i][1] = key
                        /\ \A j \in DOMAIN items : items[j][1] = key => j <= i
        IN  items[last][2]]

\* NAIC_CODES, acord_filler.py:15-118
NAIC_CODES ==
    dict_of(<<
      <<"Allstate Fire and Casualty Insurance Company", "29688">>,
      <<"Allstate Indemnity Company", "19240">>,
      <<"American Family Insurance Company", "19275">>,
      <<"Amguard Insurance Company", "42390">>,
      <<"Auto-Owners Insurance Company", "18988">>,
      <<"Berkley Insurance Company", "32603">>,
      <<"Berkshire Hathaway Homestate Insurance Company", "20044">>,
      <<"Century Surety Company", "36951">>,
      <<"Church Mutual Insurance Company", "18767">>,
      <<"Cincinnati Insurance Company", "10677">>,
      <<"Continental Casualty Company", "20443">>,
      <<"Employers Mutual Casualty Company", "21415">>,
      <<"Erie Insurance Exchange", "26263">>,
      <<"Frankenmuth Mutual Insurance Company", "13986">>,
      <<"General Casualty Company of Wisconsin", "24414">>,
      <<"Great American Insurance Company", "16691">>,
      <<"Grinnell Mutual Reinsurance Company", "23973">>,
      <<"Hanover Insurance Company", "22292">>,
      <<"Hartford Fire Insurance Company", "19682">>,
      <<"Insurance Company of the West", "27847">>,
      <<"Indiana Lumbermens Mutual Insurance Company", "14265">>,
      <<"Liberty Mutual Fire Insurance Company", "23035">>,
      <<"Liberty Mutual Insurance Company", "23043">>,
      <<"Markel American Insurance Company", "28932">>,
      <<"Mesa Underwriters Specialty Insurance Company", "36838">>,
      <<"Merchants Bonding Company", "14494">>,
      <<"Nationwide Mutual Fire Insurance Company", "23779">>,
      <<"Nationwide Mutual Insurance Company", "23787">>,
      <<"Ohio Casualty Insurance Company", "24074">>,
      <<"Pennsylvania Lumbermens Mutual Insurance Company", "14974">>,
      <<"Philadelphia Indemnity Insurance Company", "18058">>,
      <<"Pinnacol Assurance", "41190">>,
      <<"Progressive Casualty Insurance Company", "24260">>,
      <<"Selective Insurance Company of America", "12572">>,
      <<"Sentry Insurance A Mutual Company", "24988">>,
      <<"Society Insurance", "14117">>,
      <<"State Auto Mutual Automobile Insurance Company", "25127">>,
      <<"State Farm Fire and Casualty Company", "25143">>,
      <<"State Farm General Insurance Company", "25151">>,
      <<"State Farm Mutual Automobile Insurance Company", "25178">>,
      <<"The Travelers Indemnity Company", "25658">>,
      <<"Travelers Casualty and Surety Company", "19046">>,
      <<"Travelers Indemnity Company of America", "25666">>,
      <<"USAA Casualty Insurance Company", "25968">>,
      <<"United States Liability Insurance Company", "25895">>,
      <<"West Bend Mutual Insurance Company", "15350">>,
      <<"Westfield Insurance Company", "24112">>,
      <<"Zurich American Insurance Company", "16535">>,
      <<"Accelerant Specialty Insurance Company", "16890">>,
      <<"Acceptance Indemnity Insurance Company", "20010">>,
      <<"Admiral Insurance Company", "24856">>,
      <<"Allied World Insurance Company", "22730">>,
      <<"Arch Insurance Company", "11150">>,
      <<"Ategrity Specialty Insurance Company", "16427">>,
      <<"Atain Specialty Insurance Company", "17159">>,
      <<"Berkley Assurance Company", "39462">>,
      <<"Canopius US Insurance Inc", "15692">>,
      <<"Capitol Indemnity Corporation", "10472">>,
      <<"Chubb Custom Insurance Company", "21784">>,
      <<"Colony Insurance Company", "39993">>,
      <<"Crum and Forster Specialty Insurance Company", "44520">>,
      <<"Evanston Insurance Company", "35378">>,
      <<"Everest Indemnity Insurance Company", "10851">>,
      <<"General Security Indemnity Company of Arizona", "15865">>,
      <<"General Star Indemnity Company", "37362">>,
      <<"Gotham Insurance Company", "25569">>,
      <<"Hamilton Select Insurance Inc", "17178">>,
      <<"Great American E&S Insurance Company", "26344">>,
      <<"Hallmark Specialty Insurance Company", "44768">>,
      <<"Houston Casualty Company", "42374">>,
      <<"Illinois Union Insurance Company", "27960">>,
      <<"Indian Harbor Insurance Company", "36940">>,
      <<"James River Insurance Company", "12203">>,
      <<"Kinsale Insurance Company", "38920">>,
      <<"Landmark American Insurance Company", "33138">>,
      <<"Lexington Insurance Company", "19437">>,
      <<"Markel Insurance Company", "38970">>,
      <<"Maxum Indemnity Company", "26743">>,
      <<"Mt Hawley Insurance Company", "22306">>,
      <<"National Fire and Marine Insurance Company", "20079">>,
      <<"Nautilus Insurance Company", "17370">>,
      <<"Nonprofits Insurance Alliance of California", "10023">>,
      <<"North American Capacity Insurance Company", "43575">>,
      <<"Old Republic Union Insurance Company", "24147">>,
      <<"Prime Insurance Company", "17809">>,
      <<"QBE Specialty Insurance Company", "10219">>,
      <<"RLI Insurance Company", "13056">>,
      <<"Safety Specialty Insurance Company", "39012">>,
      <<"Scottsdale Insurance Company", "41297">>,
      <<"Seneca Insurance Company", "10936">>,
      <<"Starr Surplus Lines Insurance Company", "13604">>,
      <<"State National Insurance Company", "12831">>,
      <<"Steadfast Insurance Company", "26387">>,
      <<"Sutton Specialty Insurance Company", "16848">>,
      <<"SiriusPoint Specialty Insurance Corporation", "16820">>,
      <<"Third Coast Insurance Company", "10713">>,
      <<"Trisura Specialty Insurance Company", "16188">>,
      <<"Tudor Insurance Company", "37982">>,
      <<"United National Insurance Company", "13064">>,
      <<"Westchester Surplus Lines Insurance Company", "10172">>,
      <<"XL Specialty Insurance Company", "37885">>,
      <<"Starstone Specialty Insurance Company", "44776">>
    >>)

\* x and y
py_and(x, y) == IF IsRaised(x) THEN Raised ELSE IF Truthy(x) THEN y ELSE x

\* a if c else b
py_if(c, a, b) == IF IsRaised(c) THEN Raised ELSE IF Truthy(c) THEN a ELSE b

\* x.lower(): AttributeError unless x is a string
py_lower(x) ==
    IF IsRaised(x) \/ x.k /= "str" THEN Raised ELSE JStr(str_lower(x.s))

\* x.upper(): AttributeError unless x is a string
py_upper(x) ==
    IF IsRaised(x) \/ x.k /= "str" THEN Raised ELSE JStr(str_upper(x.s))

\* x in (a, b, ...) for a tuple of string literals
py_in(x, literals) ==
    IF IsRaised(x) THEN Raised ELSE JBool(x.k = "str" /\ x.s \in literals)

\* "sub" in x for a string x
py_contains(sub, x) ==
    IF IsRaised(x) \/ x.k /= "str" THEN Raised ELSE JBool(str_contains(sub, x.s))

\* x == y
py_eq(x, y) ==
    IF IsRaised(x) \/ IsRaised(y) THEN Raised ELSE JBool(py_equals(x, y))

\* datetime.now().strftime("%m/%d/%Y"), acord_filler.py:250
Today == JStr("10/30/2026")

\* the first c of cs with c.get("letter", "").upper() == letter.upper():
\* Raised, JNull when there is none, or c
RECURSIVE first_carrier(_, _, _)
first_carrier(cs, letter, i) ==
    IF i > Len(cs) THEN JNull
    ELSE LET mine == py_upper(dict_get(cs[i], "letter", JStr("")))
             asked == py_upper(letter)
         IN  IF IsRaised(mine) \/ IsRaised(asked) THEN Raised
             ELSE IF mine = asked THEN cs[i]
             ELSE first_carrier(cs, letter, i + 1)

\* the carrier the loops of _carrier and _carrier_naic stop at
carrier_of(d, letter) ==
    LET cs == iter_list(dict_get(d, "carriers", EmptyList))
    IN  IF IsRaised(cs) \/ IsRaised(letter) THEN Raised
        ELSE first_carrier(cs.l, letter, 1)

\* _carrier(d, letter), acord_filler.py:185-189
_carrier(d, letter) ==
    LET c == carrier_of(d, letter)
    IN  IF IsRaised(c) THEN Raised
        ELSE IF IsNone(c) THEN JStr("")
        ELSE dict_get(c, "name", JStr(""))

\* NAIC_CODES.get(name, ""): TypeError on a name that cannot be hashed
naic_lookup(name) ==
    IF IsRaised(name) \/ name.k \in {"dict", "list"} THEN Raised
    ELSE IF name.k = "str" /\ name.s \in DOMAIN NAIC_CODES THEN JStr(NAIC_CODES[name.s])
    ELSE JStr("")

\* _carrier_naic(d, letter), acord_filler.py:191-199
_carrier_naic(d, letter) ==
    LET c == carrier_of(d, letter)
    IN  IF IsRaised(c) THEN Raised
        ELSE IF IsNone(c) THEN JStr("")
        ELSE LET naic == dict_get(c, "naic", JStr(""))
             IN  IF Truthy(naic) THEN naic
                 ELSE naic_lookup(dict_get(c, "name", JStr("")))

\* _a25(d, k), acord_filler.py:202
_a25(d, k) == dict_get(acord25_of(d), k, JStr(""))

\* _a25e(d, k), acord_filler.py:203
_a25e(d, k) ==
    dict_get(dict_get(acord25_of(d), "endorsements", EmptyDict), k, JBool(FALSE))

\* (d.get("acord27") or {})
acord27_of(d) == py_or(dict_get(d, "acord27", JNull), EmptyDict)

\* _a27(d, k), acord_filler.py:230
_a27(d, k) == dict_get(acord27_of(d), k, JStr(""))

\* _a27c(d, k), acord_filler.py:231
_a27c(d, k) == dict_get(dict_get(acord27_of(d), "coverages", EmptyDict), k, JNull)

\* _a27m(d, k), acord_filler.py:232
_a27m(d, k) ==
    dict_get(dict_get(acord27_of(d), "mortgageholder", EmptyDict), k, JStr(""))

\* (d.get("acord30") or d.get("acord28") or {})
acord30_of(d) ==
    py_or(dict_get(d, "acord30", JNull),
          py_or(dict_get(d, "acord28", JNull), EmptyDict))

\* _a30(d, k), acord_filler.py:533
_a30(d, k) == dict_get(acord30_of(d), k, JStr(""))

\* _a30_gl(d, k), acord_filler.py:534
_a30_gl(d, k) ==
    dict_get(dict_get(acord30_of(d), "garageLiability", EmptyDict), k, JNull)

\* _a30_gk(d, k), acord_filler.py:535
_a30_gk(d, k) ==
    dict_get(dict_get(acord30_of(d), "garageKeepers", EmptyDict), k, JNull)

\* _a30_cgl(d, k), acord_filler.py:536
_a30_cgl(d, k) ==
    dict_get(dict_get(acord30_of(d), "commercialGL", EmptyDict), k, JNull)

\* the shared body of _a30_umb and _a30_wc, acord_filler.py:537-542
section30_value(d, section, k) ==
    LET v == dict_get(dict_get(acord30_of(d), section, EmptyDict), k, JStr(""))
    IN  IF IsRaised(v) THEN Raised
        ELSE IF is_number(v) THEN _fm(v) ELSE v

_a30_umb(d, k) == section30_value(d, "umbrella", k)
_a30_wc(d, k) == section30_value(d, "workersComp", k)

\* _a30e(d, k), acord_filler.py:543
_a30e(d, k) ==
    dict_get(dict_get(acord30_of(d), "endorsements", EmptyDict), k, JBool(FALSE))

\* _a30_ch(d, k), acord_filler.py:544
_a30_ch(d, k) ==
    dict_get(dict_get(acord30_of(d), "certificateHolder", EmptyDict), k, JStr(""))

\* _has_a30_garage(d), acord_filler.py:546-547
_has_a30_garage(d) ==
    py_bool(py_or(_a30(d, "policyNumber"), _a30_gl(d, "autoOnlyEachAccident")))

\* _has_a30_cgl(d), acord_filler.py:549-550
_has_a30_cgl(d) ==
    py_bool(py_or(_a30_cgl(d, "included"),
                  py_or(_a30_cgl(d, "eachOccurrence"), _a30_cgl(d, "generalAggregate"))))

\* _has_a30_umbrella(d), acord_filler.py:552-553
_has_a30_umbrella(d) ==
    py_bool(py_or(_a30_umb(d, "policyNumber"), _a30_umb(d, "eachOccurrence")))

\* _has_a30_wc(d), acord_filler.py:555-556
_has_a30_wc(d) ==
    py_bool(py_or(_a30_wc(d, "policyNumber"), _a30_wc(d, "eachAccident")))

\* The bodies of the lambdas of the field tables, as expressions: the
\* parameter d, a literal, x.get(key, dflt), x or y, x and y, a if c else b,
\* x in (literals), "sub" in x, x == y, x.lower(), x.upper(), f(args), and
\* datetime.now().strftime("%m/%d/%Y")
D == [op |-> "d"]
Const(v) == [op |-> "const", v |-> v]
Get(x, key, dflt) == [op |-> "get", x |-> x, key |-> key, dflt |-> dflt]
Or(x, y) == [op |-> "or", x |-> x, y |-> y]
And(x, y) == [op |-> "and", x |-> x, y |-> y]
IfElse(c, a, b) == [op |-> "if", c |-> c, a |-> a, b |-> b]
In(x, literals) == [op |-> "in", x |-> x, literals |-> literals]
Contains(sub, x) == [op |-> "contains", sub |-> sub, x |-> x]
Eq(x, y) == [op |-> "eq", x |-> x, y |-> y]
Lower(x) == [op |-> "lower", x |-> x]
Upper(x) == [op |-> "upper", x |-> x]
Call(f, args) == [op |-> "call", f |-> f, args |-> args]
Now == [op |-> "now"]

\* a value of a field table: lambda d: body
Lambda(body) == [r |-> "lambda", body |-> body]

\* f(*a) for the functions the lambdas call; an argument that raised raises
py_call(f, a) ==
    IF \E i \in DOMAIN a : IsRaised(a[i]) THEN Raised
    ELSE CASE f = "bool" -> py_bool(a[1])
           [] f = "str" -> py_str(a[1])
           [] f = "_fm" -> _fm(a[1])
           [] f = "_al1" -> _al1(a[1])
           [] f = "_al2" -> _al2(a[1])
           [] f = "_aci" -> _aci(a[1])
           [] f = "_ast" -> _ast(a[1])
           [] f = "_azp" -> _azp(a[1])
           [] f = "_carrier" -> _carrier(a[1], a[2])
           [] f = "_carrier_naic" -> _carrier_naic(a[1], a[2])
           [] f = "_a25" -> _a25(a[1], a[2].s)
           [] f = "_a25e" -> _a25e(a[1], a[2].s)
           [] f = "_gl" -> _gl(a[1], a[2].s)
           [] f = "_glL" -> _glL(a[1], a[2].s)
           [] f = "_au" -> _au(a[1], a[2].s)
           [] f = "_um" -> _um(a[1], a[2].s)
           [] f = "_wc" -> _wc(a[1], a[2].s)
           [] f = "_has_gl" -> _has_gl(a[1])
           [] f = "_has_auto" -> _has_auto(a[1])
           [] f = "_has_umbrella" -> _has_umbrella(a[1])
           [] f = "_has_wc" -> _has_wc(a[1])
           [] f = "_a27" -> _a27(a[1], a[2].s)
           [] f = "_a27c" -> _a27c(a[1], a[2].s)
           [] f = "_a27m" -> _a27m(a[1], a[2].s)
           [] f = "_a30" -> _a30(a[1], a[2].s)
           [] f = "_a30_gl" -> _a30_gl(a[1], a[2].s)
           [] f = "_a30_gk" -> _a30_gk(a[1], a[2].s)
           [] f = "_a30_cgl" -> _a30_cgl(a[1], a[2].s)
           [] f = "_a30_umb" -> _a30_umb(a[1], a[2].s)
           [] f = "_a30_wc" -> _a30_wc(a[1], a[2].s)
           [] f = "_a30e" -> _a30e(a[1], a[2].s)
           [] f = "_a30_ch" -> _a30_ch(a[1], a[2].s)
           [] f = "_has_a30_garage" -> _has_a30_garage(a[1])
           [] f = "_has_a30_cgl" -> _has_a30_cgl(a[1])
           [] f = "_has_a30_umbrella" -> _has_a30_umbrella(a[1])
           [] f = "_has_a30_wc" -> _has_a30_wc(a[1])

\* the value of the body e of a lambda on the document d
RECURSIVE py_eval(_, _)
py_eval(e, d) ==
    CASE e.op = "d" -> d
      [] e.op = "const" -> e.v
      [] e.op = "now" -> Today
      [] e.op = "get" -> dict_get(py_eval(e.x, d), e.key, e.dflt)
      [] e.op = "or" -> py_or(py_eval(e.x, d), py_eval(e.y, d))
      [] e.op = "and" -> py_and(py_eval(e.x, d), py_eval(e.y, d))
      [] e.op = "if" -> py_if(py_eval(e.c, d), py_eval(e.a, d), py_eval(e.b, d))
      [] e.op = "in" -> py_in(py_eval(e.x, d), e.literals)
      [] e.op = "contains" -> py_contains(e.sub, py_eval(e.x, d))
      [] e.op = "eq" -> py_eq(py_eval(e.x, d), py_eval(e.y, d))
      [] e.op = "lower" -> py_lower(py_eval(e.x, d))
      [] e.op = "upper" -> py_upper(py_eval(e.x, d))
      [] e.op = "call" ->
            py_call(e.f, [i \in DOMAIN e.args |-> py_eval(e.args[i], d)])

\* the items of ACORD25_FIELDS in the order of the table
ACORD25_ITEMS ==
    <<
      <<"Form_CompletionDate_A", Lambda(Now)>>,
      <<"CertificateOfInsurance_CertificateNumberIdentifier_A",
            Lambda(Call("_a25", <<D, Const(JStr("certificateNumber"))>>))>>,
      <<"CertificateOfInsurance_RevisionNumberIdentifier_A",
            Lambda(Const(JStr("")))>>,
      <<"Producer_FullName_A",
            Lambda(Get(Get(D, "producer", EmptyDict), "name", JStr("")))>>,
      <<"Producer_MailingAddress_LineOne_A",
            Lambda(Call("_al1", <<Get(Get(D, "producer", EmptyDict),
              "address", JStr(""))>>))>>,
      <<"Producer_MailingAddress_LineTwo_A",
            Lambda(Call("_al2", <<Get(Get(D, "producer", EmptyDict),
              "address", JStr(""))>>))>>,
      <<"Producer_MailingAddress_CityName_A",
            Lambda(Call("_aci", <<Get(Get(D, "producer", EmptyDict),
              "address", JStr(""))>>))>>,
      <<"Producer_MailingAddress_StateOrProvinceCode_A",
            Lambda(Call("_ast", <<Get(Get(D, "producer", EmptyDict),
              "address", JStr(""))>>))>>,
      <<"Producer_MailingAddress_PostalCode_A",
            Lambda(Call("_azp", <<Get(Get(D, "producer", EmptyDict),
              "address", JStr(""))>>))>>,
      <<"Producer_ContactPerson_FullName_A",
            Lambda(Get(Get(D, "producer", EmptyDict), "contactName",
              JStr("")))>>,
      <<"Producer_ContactPerson_PhoneNumber_A",
            Lambda(Get(Get(D, "producer", EmptyDict), "phone", JStr("")))>>,
      <<"Producer_FaxNumber_A",
            Lambda(Get(Get(D, "producer", EmptyDict), "fax", JStr("")))>>,
      <<"Producer_ContactPerson_EmailAddress_A",
            Lambda(Get(Get(D, "producer", EmptyDict), "email", JStr("")))>>,
      <<"Producer_AuthorizedRepresentative_Signature_A",
            Lambda(Const(JStr("")))>>,
      <<"NamedInsured_FullName_A",
            Lambda(Get(Get(D, "insured", EmptyDict), "name", JStr("")))>>,
      <<"NamedInsured_MailingAddress_LineOne_A",
            Lambda(Call("_al1", <<Get(Get(D, "insured", EmptyDict),
              "address", JStr(""))>>))>>,
      <<"NamedInsured_MailingAddress_LineTwo_A",
            Lambda(Call("_al2", <<Get(Get(D, "insured", EmptyDict),
              "address", JStr(""))>>))>>,
      <<"NamedInsured_MailingAddress_CityName_A",
            Lambda(Call("_aci", <<Get(Get(D, "insured", EmptyDict),
              "address", JStr(""))>>))>>,
      <<"NamedInsured_MailingAddress_StateOrProvinceCode_A",
            Lambda(Call("_ast", <<Get(Get(D, "insured", EmptyDict),
              "address", JStr(""))>>))>>,
      <<"NamedInsured_MailingAddress_PostalCode_A",
            Lambda(Call("_azp", <<Get(Get(D, "insured", EmptyDict),
              "address", JStr(""))>>))>>,
      <<"Insurer_FullName_A",
            Lambda(Call("_carrier", <<D, Const(JStr("A"))>>))>>,
      <<"Insurer_NAICCode_A",
            Lambda(Call("_carrier_naic", <<D, Const(JStr("A"))>>))>>,
      <<"Insurer_FullName_B",
            Lambda(Call("_carrier", <<D, Const(JStr("B"))>>))>>,
      <<"Insurer_NAICCode_B",
            Lambda(Call("_carrier_naic", <<D, Const(JStr("B"))>>))>>,
      <<"Insurer_FullName_C",
            Lambda(Call("_carrier", <<D, Const(JStr("C"))>>))>>,
      <<"Insurer_NAICCode_C",
            Lambda(Call("_carrier_naic", <<D, Const(JStr("C"))>>))>>,
      <<"Insurer_FullName_D",
            Lambda(Call("_carrier", <<D, Const(JStr("D"))>>))>>,
      <<"Insurer_NAICCode_D",
            Lambda(Call("_carrier_naic", <<D, Const(JStr("D"))>>))>>,
      <<"Insurer_FullName_E",
            Lambda(Call("_carrier", <<D, Const(JStr("E"))>>))>>,
      <<"Insurer_NAICCode_E",
            Lambda(Call("_carrier_naic", <<D, Const(JStr("E"))>>))>>,
      <<"Insurer_FullName_F",
            Lambda(Call("_carrier", <<D, Const(JStr("F"))>>))>>,
      <<"Insurer_NAICCode_F",
            Lambda(Call("_carrier_naic", <<D, Const(JStr("F"))>>))>>,
      <<"GeneralLiability_InsurerLetterCode_A",
            Lambda(Or(Call("_gl", <<D, Const(JStr("insurerLetter"))>>),
              IfElse(Call("_has_gl", <<D>>), Const(JStr("A")),
              Const(JStr("")))))>>,
      <<"Policy_GeneralLiability_PolicyNumberIdentifier_A",
            Lambda(Call("_gl", <<D, Const(JStr("policyNumber"))>>))>>,
      <<"Policy_GeneralLiability_EffectiveDate_A",
            Lambda(Call("_gl", <<D, Const(JStr("effectiveDate"))>>))>>,
      <<"Policy_GeneralLiability_ExpirationDate_A",
            Lambda(Call("_gl", <<D, Const(JStr("expirationDate"))>>))>>,
      <<"GeneralLiability_CoverageIndicator_A",
            Lambda(Call("_has_gl", <<D>>))>>,
      <<"GeneralLiability_ClaimsMadeIndicator_A",
            Lambda(Call("bool", <<Call("_gl", <<D,
              Const(JStr("claimsMade"))>>)>>))>>,
      <<"GeneralLiability_OccurrenceIndicator_A",
            Lambda(Call("bool", <<Call("_gl", <<D,
              Const(JStr("occurrence"))>>)>>))>>,
      <<"GeneralLiability_EachOccurrence_LimitAmount_A",
            Lambda(Call("_glL", <<D, Const(JStr("eachOccurrence"))>>))>>,
      <<"GeneralLiability_FireDamageRentedPremises_EachOccurrenceLimitAmount_A",
            Lambda(Call("_glL", <<D,
              Const(JStr("damageToRentedPremises"))>>))>>,
      <<"GeneralLiability_MedicalExpense_EachPersonLimitAmount_A",
            Lambda(Call("_glL", <<D, Const(JStr("medicalExpense"))>>))>>,
      <<"GeneralLiability_PersonalAndAdvertisingInjury_LimitAmount_A",
            Lambda(Call("_glL", <<D, Const(JStr("personalAdvInjury"))>>))>>,
      <<"GeneralLiability_GeneralAggregate_LimitAmount_A",
            Lambda(Call("_glL", <<D, Const(JStr("generalAggregate"))>>))>>,
      <<"GeneralLiability_ProductsAndCompletedOperations_AggregateLimitAmount_A",
            Lambda(Call("_glL", <<D, Const(JStr("productsCompOp"))>>))>>,
      <<"GeneralLiability_GeneralAggregate_LimitAppliesPerPolicyIndicator_A",
            Lambda(Call("_has_gl", <<D>>))>>,
      <<"GeneralLiability_GeneralAggregate_LimitAppliesPerProjectIndicator_A",
            Lambda(Const(JBool(FALSE)))>>,
      <<"GeneralLiability_GeneralAggregate_LimitAppliesPerLocationIndicator_A",
            Lambda(Const(JBool(FALSE)))>>,
      <<"GeneralLiability_GeneralAggregate_LimitAppliesToOtherIndicator_A",
            Lambda(Const(JBool(FALSE)))>>,
      <<"GeneralLiability_GeneralAggregate_LimitAppliesToCode_A",
            Lambda(Const(JStr("")))>>,
      <<"GeneralLiability_OtherCoverageIndicator_A",
            Lambda(Const(JBool(FALSE)))>>,
      <<"GeneralLiability_OtherCoverageIndicator_B",
            Lambda(Const(JBool(FALSE)))>>,
      <<"GeneralLiability_OtherCoverageDescription_A",
            Lambda(Const(JStr("")))>>,
      <<"GeneralLiability_OtherCoverageDescription_B",
            Lambda(Const(JStr("")))>>,
      <<"GeneralLiability_OtherCoverageLimitAmount_A",
            Lambda(Const(JStr("")))>>,
      <<"GeneralLiability_OtherCoverageLimitDescription_A",
            Lambda(Const(JStr("")))>>,
      <<"CertificateOfInsurance_GeneralLiability_AdditionalInsuredCode_A",
            Lambda(IfElse(And(Call("_gl", <<D,
              Const(JStr("policyNumber"))>>), Call("_a25e", <<D,
              Const(JStr("additionalInsured"))>>)), Const(JStr("Y")),
              Const(JStr(""))))>>,
      <<"Policy_GeneralLiability_SubrogationWaivedCode_A",
            Lambda(IfElse(And(Call("_gl", <<D,
              Const(JStr("policyNumber"))>>), Call("_a25e", <<D,
              Const(JStr("waiverOfSubrogation"))>>)), Const(JStr("Y")),
              Const(JStr(""))))>>,
      <<"Vehicle_InsurerLetterCode_A",
            Lambda(Or(Call("_au", <<D, Const(JStr("insurerLetter"))>>),
              IfElse(Call("_has_auto", <<D>>), Const(JStr("A")),
              Const(JStr("")))))>>,
      <<"Policy_AutomobileLiability_PolicyNumberIdentifier_A",
            Lambda(Call("_au", <<D, Const(JStr("policyNumber"))>>))>>,
      <<"Policy_AutomobileLiability_EffectiveDate_A",
            Lambda(Call("_au", <<D, Const(JStr("effectiveDate"))>>))>>,
      <<"Policy_AutomobileLiability_ExpirationDate_A",
            Lambda(Call("_au", <<D, Const(JStr("expirationDate"))>>))>>,
      <<"Vehicle_AnyAutoIndicator_A",
            Lambda(In(Lower(Call("str", <<Call("_au", <<D,
              Const(JStr("autoType"))>>)>>)), {"any auto", "any"}))>>,
      <<"Vehicle_AllOwnedAutosIndicator_A",
            Lambda(Contains("owned", Lower(Call("str", <<Call("_au", <<D,
              Const(JStr("autoType"))>>)>>))))>>,
      <<"Vehicle_ScheduledAutosIndicator_A",
            Lambda(Contains("scheduled", Lower(Call("str", <<Call("_au", <<D,
              Const(JStr("autoType"))>>)>>))))>>,
      <<"Vehicle_HiredAutosIndicator_A",
            Lambda(Contains("hired", Lower(Call("str", <<Call("_au", <<D,
              Const(JStr("autoType"))>>)>>))))>>,
      <<"Vehicle_NonOwnedAutosIndicator_A",
            Lambda(Or(Contains("non-owned", Lower(Call("str", <<Call("_au",
              <<D, Const(JStr("autoType"))>>)>>))), Contains("non owned",
              Lower(Call("str", <<Call("_au", <<D,
              Const(JStr("autoType"))>>)>>)))))>>,
      <<"Vehicle_OtherCoveredAutoIndicator_A", Lambda(Const(JBool(FALSE)))>>,
      <<"Vehicle_OtherCoveredAutoIndicator_B", Lambda(Const(JBool(FALSE)))>>,
      <<"Vehicle_OtherCoveredAutoDescription_A", Lambda(Const(JStr("")))>>,
      <<"Vehicle_OtherCoveredAutoDescription_B", Lambda(Const(JStr("")))>>,
      <<"Vehicle_CombinedSingleLimit_EachAccidentAmount_A",
            Lambda(Call("_fm", <<Call("_au", <<D,
              Const(JStr("combinedSingleLimit"))>>)>>))>>,
      <<"Vehicle_BodilyInjury_PerPersonLimitAmount_A",
            Lambda(Const(JStr("")))>>,
      <<"Vehicle_BodilyInjury_PerAccidentLimitAmount_A",
            Lambda(Const(JStr("")))>>,
      <<"Vehicle_PropertyDamage_PerAccidentLimitAmount_A",
            Lambda(Const(JStr("")))>>,
      <<"Vehicle_OtherCoverage_CoverageDescription_A",
            Lambda(Const(JStr("")))>>,
      <<"Vehicle_OtherCoverage_LimitAmount_A", Lambda(Const(JStr("")))>>,
      <<"CertificateOfInsurance_AutomobileLiability_AdditionalInsuredCode_A",
            Lambda(IfElse(And(Call("_au", <<D,
              Const(JStr("policyNumber"))>>), Call("_a25e", <<D,
              Const(JStr("additionalInsured"))>>)), Const(JStr("Y")),
              Const(JStr(""))))>>,
      <<"Policy_AutomobileLiability_SubrogationWaivedCode_A",
            Lambda(IfElse(And(Call("_au", <<D,
              Const(JStr("policyNumber"))>>), Call("_a25e", <<D,
              Const(JStr("waiverOfSubrogation"))>>)), Const(JStr("Y")),
              Const(JStr(""))))>>,
      <<"ExcessUmbrella_InsurerLetterCode_A",
            Lambda(Or(Call("_um", <<D, Const(JStr("insurerLetter"))>>),
              IfElse(Call("_has_umbrella", <<D>>), Const(JStr("A")),
              Const(JStr("")))))>>,
      <<"Policy_ExcessLiability_PolicyNumberIdentifier_A",
            Lambda(Call("_um", <<D, Const(JStr("policyNumber"))>>))>>,
      <<"Policy_ExcessLiability_EffectiveDate_A",
            Lambda(Call("_um", <<D, Const(JStr("effectiveDate"))>>))>>,
      <<"Policy_ExcessLiability_ExpirationDate_A",
            Lambda(Call("_um", <<D, Const(JStr("expirationDate"))>>))>>,
      <<"Policy_PolicyType_UmbrellaIndicator_A",
            Lambda(In(Lower(Call("str", <<Call("_um", <<D,
              Const(JStr("type"))>>)>>)), {"umbrella", ""}))>>,
      <<"Policy_PolicyType_ExcessIndicator_A",
            Lambda(Eq(Lower(Call("str", <<Call("_um", <<D,
              Const(JStr("type"))>>)>>)), Const(JStr("excess"))))>>,
      <<"ExcessUmbrella_OccurrenceIndicator_A",
            Lambda(Call("bool", <<Call("_um", <<D,
              Const(JStr("eachOccurrence"))>>)>>))>>,
      <<"ExcessUmbrella_ClaimsMadeIndicator_A", Lambda(Const(JBool(FALSE)))>>,
      <<"ExcessUmbrella_DeductibleIndicator_A", Lambda(Const(JBool(FALSE)))>>,
      <<"ExcessUmbrella_RetentionIndicator_A",
            Lambda(Call("bool", <<Call("_um", <<D,
              Const(JStr("retention"))>>)>>))>>,
      <<"ExcessUmbrella_Umbrella_EachOccurrenceAmount_A",
            Lambda(Call("_fm", <<Call("_um", <<D,
              Const(JStr("eachOccurrence"))>>)>>))>>,
      <<"ExcessUmbrella_Umbrella_AggregateAmount_A",
            Lambda(Call("_fm", <<Call("_um", <<D,
              Const(JStr("aggregate"))>>)>>))>>,
      <<"ExcessUmbrella_Umbrella_DeductibleOrRetentionAmount_A",
            Lambda(Call("_fm", <<Call("_um", <<D,
              Const(JStr("retention"))>>)>>))>>,
      <<"ExcessUmbrella_OtherCoverageDescription_A",
            Lambda(Const(JStr("")))>>,
      <<"ExcessUmbrella_OtherCoverageLimitAmount_A",
            Lambda(Const(JStr("")))>>,
      <<"CertificateOfInsurance_ExcessLiability_AdditionalInsuredCode_A",
            Lambda(IfElse(And(Call("_um", <<D,
              Const(JStr("policyNumber"))>>), Call("_a25e", <<D,
              Const(JStr("additionalInsured"))>>)), Const(JStr("Y")),
              Const(JStr(""))))>>,
      <<"Policy_ExcessLiability_SubrogationWaivedCode_A",
            Lambda(IfElse(And(Call("_um", <<D,
              Const(JStr("policyNumber"))>>), Call("_a25e", <<D,
              Const(JStr("waiverOfSubrogation"))>>)), Const(JStr("Y")),
              Const(JStr(""))))>>,
      <<"WorkersCompensationEmployersLiability_InsurerLetterCode_A",
            Lambda(Or(Call("_wc", <<D, Const(JStr("insurerLetter"))>>),
              IfElse(Call("_has_wc", <<D>>), Const(JStr("A")),
              Const(JStr("")))))>>,
      <<"Policy_WorkersCompensationAndEmployersLiability_PolicyNumberIdentifier_A",
            Lambda(Call("_wc", <<D, Const(JStr("policyNumber"))>>))>>,
      <<"Policy_WorkersCompensationAndEmployersLiability_EffectiveDate_A",
            Lambda(Call("_wc", <<D, Const(JStr("effectiveDate"))>>))>>,
      <<"Policy_WorkersCompensationAndEmployersLiability_ExpirationDate_A",
            Lambda(Call("_wc", <<D, Const(JStr("expirationDate"))>>))>>,
      <<"WorkersCompensationEmployersLiability_WorkersCompensationStatutoryLimitIndicator_A",
            Lambda(Call("bool", <<Call("_wc", <<D,
              Const(JStr("eachAccident"))>>)>>))>>,
      <<"WorkersCompensationEmployersLiability_OtherCoverageIndicator_A",
            Lambda(Const(JBool(FALSE)))>>,
      <<"WorkersCompensationEmployersLiability_OtherCoverageDescription_A",
            Lambda(Const(JStr("")))>>,
      <<"WorkersCompensationEmployersLiability_AnyPersonsExcludedIndicator_A",
            Lambda(Const(JStr("")))>>,
      <<"WorkersCompensationEmployersLiability_EmployersLiability_EachAccidentLimitAmount_A",
            Lambda(Call("_fm", <<Call("_wc", <<D,
              Const(JStr("eachAccident"))>>)>>))>>,
      <<"WorkersCompensationEmployersLiability_EmployersLiability_DiseaseEachEmployeeLimitAmount_A",
            Lambda(Call("_fm", <<Call("_wc", <<D,
              Const(JStr("diseaseEachEmployee"))>>)>>))>>,
      <<"WorkersCompensationEmployersLiability_EmployersLiability_DiseasePolicyLimitAmount_A",
            Lambda(Call("_fm", <<Call("_wc", <<D,
              Const(JStr("diseasePolicyLimit"))>>)>>))>>,
      <<"Policy_WorkersCompensation_SubrogationWaivedCode_A",
            Lambda(IfElse(And(Call("_wc", <<D,
              Const(JStr("policyNumber"))>>), Call("_a25e", <<D,
              Const(JStr("waiverOfSubrogation"))>>)), Const(JStr("Y")),
              Const(JStr(""))))>>,
      <<"OtherPolicy_InsurerLetterCode_A", Lambda(Const(JStr("")))>>,
      <<"OtherPolicy_OtherPolicyDescription_A", Lambda(Const(JStr("")))>>,
      <<"OtherPolicy_PolicyNumberIdentifier_A", Lambda(Const(JStr("")))>>,
      <<"OtherPolicy_PolicyEffectiveDate_A", Lambda(Const(JStr("")))>>,
      <<"OtherPolicy_PolicyExpirationDate_A", Lambda(Const(JStr("")))>>,
      <<"OtherPolicy_CoverageCode_A", Lambda(Const(JStr("")))>>,
      <<"OtherPolicy_CoverageCode_B", Lambda(Const(JStr("")))>>,
      <<"OtherPolicy_CoverageCode_C", Lambda(Const(JStr("")))>>,
      <<"OtherPolicy_CoverageLimitAmount_A", Lambda(Const(JStr("")))>>,
      <<"OtherPolicy_CoverageLimitAmount_B", Lambda(Const(JStr("")))>>,
      <<"OtherPolicy_CoverageLimitAmount_C", Lambda(Const(JStr("")))>>,
      <<"CertificateOfInsurance_OtherPolicy_AdditionalInsuredCode_A",
            Lambda(Const(JStr("")))>>,
      <<"OtherPolicy_SubrogationWaivedCode_A", Lambda(Const(JStr("")))>>,
      <<"CertificateOfLiabilityInsurance_ACORDForm_RemarkText_A",
            Lambda(Call("_a25", <<D,
              Const(JStr("descriptionOfOperations"))>>))>>,
      <<"CertificateHolder_FullName_A",
            Lambda(Get(Get(Or(Get(D, "acord25", JNull), Const(EmptyDict)),
              "certificateHolder", EmptyDict), "name", JStr("")))>>,
      <<"CertificateHolder_MailingAddress_LineOne_A",
            Lambda(Call("_al1", <<Get(Get(Or(Get(D, "acord25", JNull),
              Const(EmptyDict)), "certificateHolder", EmptyDict), "address",
              JStr(""))>>))>>,
      <<"CertificateHolder_MailingAddress_LineTwo_A",
            Lambda(Call("_al2", <<Get(Get(Or(Get(D, "acord25", JNull),
              Const(EmptyDict)), "certificateHolder", EmptyDict), "address",
              JStr(""))>>))>>,
      <<"CertificateHolder_MailingAddress_CityName_A",
            Lambda(Call("_aci", <<Get(Get(Or(Get(D, "acord25", JNull),
              Const(EmptyDict)), "certificateHolder", EmptyDict), "address",
              JStr(""))>>))>>,
      <<"CertificateHolder_MailingAddress_StateOrProvinceCode_A",
            Lambda(Call("_ast", <<Get(Get(Or(Get(D, "acord25", JNull),
              Const(EmptyDict)), "certificateHolder", EmptyDict), "address",
              JStr(""))>>))>>,
      <<"CertificateHolder_MailingAddress_PostalCode_A",
            Lambda(Call("_azp", <<Get(Get(Or(Get(D, "acord25", JNull),
              Const(EmptyDict)), "certificateHolder", EmptyDict), "address",
              JStr(""))>>))>>
    >>

\* ACORD25_FIELDS, acord_filler.py:248-413
ACORD25_FIELDS == dict_of(ACORD25_ITEMS)

\* the items of ACORD27_FIELDS in the order of the table
ACORD27_ITEMS ==
    <<
      <<"Form_CompletionDate_A", Lambda(Now)>>,
      <<"Producer_FullName_A",
            Lambda(Get(Get(D, "producer", EmptyDict), "name", JStr("")))>>,
      <<"Producer_MailingAddress_LineOne_A",
            Lambda(Call("_al1", <<Get(Get(D, "producer", EmptyDict),
              "address", JStr(""))>>))>>,
      <<"Producer_MailingAddress_LineTwo_A",
            Lambda(Call("_al2", <<Get(Get(D, "producer", EmptyDict),
              "address", JStr(""))>>))>>,
      <<"Producer_MailingAddress_CityName_A",
            Lambda(Call("_aci", <<Get(Get(D, "producer", EmptyDict),
              "address", JStr(""))>>))>>,
      <<"Producer_MailingAddress_StateOrProvinceCode_A",
            Lambda(Call("_ast", <<Get(Get(D, "producer", EmptyDict),
              "address", JStr(""))>>))>>,
      <<"Producer_MailingAddress_PostalCode_A",
            Lambda(Call("_azp", <<Get(Get(D, "producer", EmptyDict),
              "address", JStr(""))>>))>>,
      <<"Producer_ContactPerson_PhoneNumber_A",
            Lambda(Get(Get(D, "producer", EmptyDict), "phone", JStr("")))>>,
      <<"Producer_FaxNumber_A",
            Lambda(Get(Get(D, "producer", EmptyDict), "fax", JStr("")))>>,
      <<"Producer_ContactPerson_EmailAddress_A",
            Lambda(Get(Get(D, "producer", EmptyDict), "email", JStr("")))>>,
      <<"Producer_CustomerIdentifier_A", Lambda(Const(JStr("")))>>,
      <<"Producer_AuthorizedRepresentative_Signature_A",
            Lambda(Const(JStr("")))>>,
      <<"Insurer_FullName_A",
            Lambda(Call("_carrier", <<D, Get(Or(Get(D, "acord27", JNull),
              Const(EmptyDict)), "insurerLetter", JStr("A"))>>))>>,
      <<"Insurer_MailingAddress_AddressLineOne_A", Lambda(Const(JStr("")))>>,
      <<"Insurer_MailingAddress_AddressLineTwo_A", Lambda(Const(JStr("")))>>,
      <<"Insurer_MailingAddress_CityName_A", Lambda(Const(JStr("")))>>,
      <<"Insurer_MailingAddress_StateOrProvinceCode_A",
            Lambda(Const(JStr("")))>>,
      <<"Insurer_MailingAddress_PostalCode_A", Lambda(Const(JStr("")))>>,
      <<"Insurer_ProducerIdentifier_A", Lambda(Const(JStr("")))>>,
      <<"Insurer_SubProducerIdentifier_A", Lambda(Const(JStr("")))>>,
      <<"NamedInsured_FullName_A",
            Lambda(Get(Get(D, "insured", EmptyDict), "name", JStr("")))>>,
      <<"NamedInsured_MailingAddress_LineOne_A",
            Lambda(Call("_al1", <<Get(Get(D, "insured", EmptyDict),
              "address", JStr(""))>>))>>,
      <<"NamedInsured_MailingAddress_LineTwo_A",
            Lambda(Call("_al2", <<Get(Get(D, "insured", EmptyDict),
              "address", JStr(""))>>))>>,
      <<"NamedInsured_MailingAddress_CityName_A",
            Lambda(Call("_aci", <<Get(Get(D, "insured", EmptyDict),
              "address", JStr(""))>>))>>,
      <<"NamedInsured_MailingAddress_StateOrProvinceCode_A",
            Lambda(Call("_ast", <<Get(Get(D, "insured", EmptyDict),
              "address", JStr(""))>>))>>,
      <<"NamedInsured_MailingAddress_PostalCode_A",
            Lambda(Call("_azp", <<Get(Get(D, "insured", EmptyDict),
              "address", JStr(""))>>))>>,
      <<"Policy_PolicyNumberIdentifier_A",
            Lambda(Call("_a27", <<D, Const(JStr("policyNumber"))>>))>>,
      <<"Policy_EffectiveDate_A",
            Lambda(Call("_a27", <<D, Const(JStr("effectiveDate"))>>))>>,
      <<"Policy_ExpirationDate_A",
            Lambda(Call("_a27", <<D, Const(JStr("expirationDate"))>>))>>,
      <<"Policy_PolicyType_BasicIndicator_A",
            Lambda(Eq(Lower(Call("str", <<Call("_a27", <<D,
              Const(JStr("causeOfLoss"))>>)>>)), Const(JStr("basic"))))>>,
      <<"Policy_PolicyType_BroadIndicator_A",
            Lambda(Eq(Lower(Call("str", <<Call("_a27", <<D,
              Const(JStr("causeOfLoss"))>>)>>)), Const(JStr("broad"))))>>,
      <<"Policy_PolicyType_SpecialIndicator_A",
            Lambda(Contains("special", Lower(Call("str", <<Call("_a27", <<D,
              Const(JStr("causeOfLoss"))>>)>>))))>>,
      <<"Policy_PolicyType_OtherIndicator_A", Lambda(Const(JBool(FALSE)))>>,
      <<"Policy_PolicyType_OtherDescription_A", Lambda(Const(JStr("")))>>,
      <<"EvidenceOfProperty_PropertyDescription_A",
            Lambda(Call("_a27", <<D, Const(JStr("propertyAddress"))>>))>>,
      <<"EvidenceOfProperty_PhysicalAddress_StreetLineOne_A",
            Lambda(Call("_al1", <<Call("_a27", <<D,
              Const(JStr("propertyAddress"))>>)>>))>>,
      <<"EvidenceOfProperty_PhysicalAddress_StreetLineTwo_A",
            Lambda(Call("_al2", <<Call("_a27", <<D,
              Const(JStr("propertyAddress"))>>)>>))>>,
      <<"EvidenceOfProperty_PhysicalAddress_CityName_A",
            Lambda(Call("_aci", <<Call("_a27", <<D,
              Const(JStr("propertyAddress"))>>)>>))>>,
      <<"EvidenceOfProperty_PhysicalAddress_StateOrProvinceCode_A",
            Lambda(Call("_ast", <<Call("_a27", <<D,
              Const(JStr("propertyAddress"))>>)>>))>>,
      <<"EvidenceOfProperty_PhysicalAddress_PostalCode_A",
            Lambda(Call("_azp", <<Call("_a27", <<D,
              Const(JStr("propertyAddress"))>>)>>))>>,
      <<"EvidenceOfProperty_PhysicalAddress_CountyName_A",
            Lambda(Const(JStr("")))>>,
      <<"EvidenceOfProperty_PriorEvidenceDate_A", Lambda(Const(JStr("")))>>,
      <<"EvidenceOfProperty_ContinuousBasisIndicator_A",
            Lambda(Const(JBool(FALSE)))>>,
      <<"EvidenceOfProperty_CoverageDescription_A",
            Lambda(IfElse(Call("_a27c", <<D, Const(JStr("building"))>>),
              Const(JStr("Building")), Const(JStr(""))))>>,
      <<"EvidenceOfProperty_LimitAmount_A",
            Lambda(Call("_fm", <<Call("_a27c", <<D,
              Const(JStr("building"))>>)>>))>>,
      <<"EvidenceOfProperty_DeductibleAmount_A",
            Lambda(Call("_fm", <<Call("_a27", <<D,
              Const(JStr("deductible"))>>)>>))>>,
      <<"EvidenceOfProperty_CoverageDescription_B",
            Lambda(IfElse(Call("_a27c", <<D,
              Const(JStr("personalProperty"))>>),
              Const(JStr("Business Personal Property")), Const(JStr(""))))>>,
      <<"EvidenceOfProperty_LimitAmount_B",
            Lambda(Call("_fm", <<Call("_a27c", <<D,
              Const(JStr("personalProperty"))>>)>>))>>,
      <<"EvidenceOfProperty_DeductibleAmount_B",
            Lambda(IfElse(Call("_a27c", <<D,
              Const(JStr("personalProperty"))>>), Call("_fm", <<Call("_a27",
              <<D, Const(JStr("deductible"))>>)>>), Const(JStr(""))))>>,
      <<"EvidenceOfProperty_CoverageDescription_C",
            Lambda(IfElse(Call("_a27c", <<D,
              Const(JStr("businessIncome"))>>),
              Const(JStr("Business Income")), Const(JStr(""))))>>,
      <<"EvidenceOfProperty_LimitAmount_C",
            Lambda(Call("_fm", <<Call("_a27c", <<D,
              Const(JStr("businessIncome"))>>)>>))>>,
      <<"EvidenceOfProperty_DeductibleAmount_C", Lambda(Const(JStr("")))>>,
      <<"EvidenceOfProperty_CoverageDescription_D",
            Lambda(IfElse(Call("_a27c", <<D, Const(JStr("flood"))>>),
              Const(JStr("Flood")), Const(JStr(""))))>>,
      <<"EvidenceOfProperty_LimitAmount_D",
            Lambda(Call("_fm", <<Call("_a27c", <<D,
              Const(JStr("flood"))>>)>>))>>,
      <<"EvidenceOfProperty_DeductibleAmount_D", Lambda(Const(JStr("")))>>,
      <<"EvidenceOfProperty_CoverageDescription_E",
            Lambda(IfElse(Call("_a27c", <<D, Const(JStr("earthquake"))>>),
              Const(JStr("Earthquake")), Const(JStr(""))))>>,
      <<"EvidenceOfProperty_LimitAmount_E",
            Lambda(Call("_fm", <<Call("_a27c", <<D,
              Const(JStr("earthquake"))>>)>>))>>,
      <<"EvidenceOfProperty_DeductibleAmount_E", Lambda(Const(JStr("")))>>,
      <<"EvidenceOfProperty_CoverageDescription_F", Lambda(Const(JStr("")))>>,
      <<"EvidenceOfProperty_CoverageDescription_G", Lambda(Const(JStr("")))>>,
      <<"EvidenceOfProperty_CoverageDescription_H", Lambda(Const(JStr("")))>>,
      <<"EvidenceOfProperty_CoverageDescription_I", Lambda(Const(JStr("")))>>,
      <<"EvidenceOfProperty_CoverageDescription_J", Lambda(Const(JStr("")))>>,
      <<"EvidenceOfProperty_LimitAmount_F", Lambda(Const(JStr("")))>>,
      <<"EvidenceOfProperty_LimitAmount_G", Lambda(Const(JStr("")))>>,
      <<"EvidenceOfProperty_LimitAmount_H", Lambda(Const(JStr("")))>>,
      <<"EvidenceOfProperty_LimitAmount_I", Lambda(Const(JStr("")))>>,
      <<"EvidenceOfProperty_LimitAmount_J", Lambda(Const(JStr("")))>>,
      <<"EvidenceOfProperty_DeductibleAmount_F", Lambda(Const(JStr("")))>>,
      <<"EvidenceOfProperty_DeductibleAmount_G", Lambda(Const(JStr("")))>>,
      <<"EvidenceOfProperty_DeductibleAmount_H", Lambda(Const(JStr("")))>>,
      <<"EvidenceOfProperty_DeductibleAmount_I", Lambda(Const(JStr("")))>>,
      <<"EvidenceOfProperty_DeductibleAmount_J", Lambda(Const(JStr("")))>>,
      <<"EvidenceOfProperty_RemarkText_A", Lambda(Const(JStr("")))>>,
      <<"AdditionalInterest_FullName_A",
            Lambda(Call("_a27m", <<D, Const(JStr("name"))>>))>>,
      <<"AdditionalInterest_MailingAddress_LineOne_A",
            Lambda(Call("_al1", <<Call("_a27m", <<D,
              Const(JStr("address"))>>)>>))>>,
      <<"AdditionalInterest_MailingAddress_LineTwo_A",
            Lambda(Call("_al2", <<Call("_a27m", <<D,
              Const(JStr("address"))>>)>>))>>,
      <<"AdditionalInterest_MailingAddress_CityName_A",
            Lambda(Call("_aci", <<Call("_a27m", <<D,
              Const(JStr("address"))>>)>>))>>,
      <<"AdditionalInterest_MailingAddress_StateOrProvinceCode_A",
            Lambda(Call("_ast", <<Call("_a27m", <<D,
              Const(JStr("address"))>>)>>))>>,
      <<"AdditionalInterest_MailingAddress_PostalCode_A",
            Lambda(Call("_azp", <<Call("_a27m", <<D,
              Const(JStr("address"))>>)>>))>>,
      <<"AdditionalInterest_AccountNumberIdentifier_A",
            Lambda(Call("_a27m", <<D, Const(JStr("loanNumber"))>>))>>,
      <<"AdditionalInterest_AccountNumberIdentifier_B",
            Lambda(Const(JStr("")))>>,
      <<"AdditionalInterest_Interest_MortgageeIndicator_A",
            Lambda(Call("bool", <<Call("_a27m", <<D,
              Const(JStr("name"))>>)>>))>>,
      <<"AdditionalInterest_Interest_AdditionalInsuredIndicator_A",
            Lambda(Const(JBool(FALSE)))>>,
      <<"AdditionalInterest_Interest_LendersLossPayableIndicator_A",
            Lambda(Const(JBool(FALSE)))>>,
      <<"AdditionalInterest_Interest_LossPayeeIndicator_A",
            Lambda(Const(JBool(FALSE)))>>,
      <<"AdditionalInterest_Interest_OtherIndicator_A",
            Lambda(Const(JBool(FALSE)))>>,
      <<"AdditionalInterest_Interest_OtherDescription_A",
            Lambda(Const(JStr("")))>>
    >>

\* ACORD27_FIELDS, acord_filler.py:419-522
ACORD27_FIELDS == dict_of(ACORD27_ITEMS)

\* the items of ACORD30_FIELDS in the order of the table
ACORD30_ITEMS ==
    <<
      <<"F[0].P1[0].Form_CompletionDate_A[0]", Lambda(Now)>>,
      <<"F[0].P1[0].CertificateOfInsurance_CertificateNumberIdentifier_A[0]",
            Lambda(Const(JStr("")))>>,
      <<"F[0].P1[0].CertificateOfInsurance_RevisionNumberIdentifier_A[0]",
            Lambda(Const(JStr("")))>>,
      <<"F[0].P1[0].Producer_FullName_A[0]",
            Lambda(Get(Get(D, "producer", EmptyDict), "name", JStr("")))>>,
      <<"F[0].P1[0].Producer_MailingAddress_LineOne_A[0]",
            Lambda(Call("_al1", <<Get(Get(D, "producer", EmptyDict),
              "address", JStr(""))>>))>>,
      <<"F[0].P1[0].Producer_MailingAddress_LineTwo_A[0]",
            Lambda(Call("_al2", <<Get(Get(D, "producer", EmptyDict),
              "address", JStr(""))>>))>>,
      <<"F[0].P1[0].Producer_MailingAddress_CityName_A[0]",
            Lambda(Call("_aci", <<Get(Get(D, "producer", EmptyDict),
              "address", JStr(""))>>))>>,
      <<"F[0].P1[0].Producer_MailingAddress_StateOrProvinceCode_A[0]",
            Lambda(Call("_ast", <<Get(Get(D, "producer", EmptyDict),
              "address", JStr(""))>>))>>,
      <<"F[0].P1[0].Producer_MailingAddress_PostalCode_A[0]",
            Lambda(Call("_azp", <<Get(Get(D, "producer", EmptyDict),
              "address", JStr(""))>>))>>,
      <<"F[0].P1[0].Producer_ContactPerson_FullName_A[0]",
            Lambda(Get(Get(D, "producer", EmptyDict), "contactName",
              JStr("")))>>,
      <<"F[0].P1[0].Producer_ContactPerson_PhoneNumber_A[0]",
            Lambda(Get(Get(D, "producer", EmptyDict), "phone", JStr("")))>>,
      <<"F[0].P1[0].Producer_FaxNumber_A[0]",
            Lambda(Get(Get(D, "producer", EmptyDict), "fax", JStr("")))>>,
      <<"F[0].P1[0].Producer_ContactPerson_EmailAddress_A[0]",
            Lambda(Get(Get(D, "producer", EmptyDict), "email", JStr("")))>>,
      <<"F[0].P1[0].Producer_CustomerIdentifier_A[0]",
            Lambda(Const(JStr("")))>>,
      <<"F[0].P1[0].Producer_AuthorizedRepresentative_Signature_A[0]",
            Lambda(Const(JStr("")))>>,
      <<"F[0].P1[0].NamedInsured_FullName_A[0]",
            Lambda(Get(Get(D, "insured", EmptyDict), "name", JStr("")))>>,
      <<"F[0].P1[0].NamedInsured_MailingAddress_LineOne_A[0]",
            Lambda(Call("_al1", <<Get(Get(D, "insured", EmptyDict),
              "address", JStr(""))>>))>>,
      <<"F[0].P1[0].NamedInsured_MailingAddress_LineTwo_A[0]",
            Lambda(Call("_al2", <<Get(Get(D, "insured", EmptyDict),
              "address", JStr(""))>>))>>,
      <<"F[0].P1[0].NamedInsured_MailingAddress_CityName_A[0]",
            Lambda(Call("_aci", <<Get(Get(D, "insured", EmptyDict),
              "address", JStr(""))>>))>>,
      <<"F[0].P1[0].NamedInsured_MailingAddress_StateOrProvinceCode_A[0]",
            Lambda(Call("_ast", <<Get(Get(D, "insured", EmptyDict),
              "address", JStr(""))>>))>>,
      <<"F[0].P1[0].NamedInsured_MailingAddress_PostalCode_A[0]",
            Lambda(Call("_azp", <<Get(Get(D, "insured", EmptyDict),
              "address", JStr(""))>>))>>,
      <<"F[0].P1[0].Insurer_FullName_A[0]",
            Lambda(Call("_carrier", <<D, Const(JStr("A"))>>))>>,
      <<"F[0].P1[0].Insurer_NAICCode_A[0]",
            Lambda(Call("_carrier_naic", <<D, Const(JStr("A"))>>))>>,
      <<"F[0].P1[0].Insurer_FullName_B[0]",
            Lambda(Call("_carrier", <<D, Const(JStr("B"))>>))>>,
      <<"F[0].P1[0].Insurer_NAICCode_B[0]",
            Lambda(Call("_carrier_naic", <<D, Const(JStr("B"))>>))>>,
      <<"F[0].P1[0].Insurer_FullName_C[0]",
            Lambda(Call("_carrier", <<D, Const(JStr("C"))>>))>>,
      <<"F[0].P1[0].Insurer_NAICCode_C[0]",
            Lambda(Call("_carrier_naic", <<D, Const(JStr("C"))>>))>>,
      <<"F[0].P1[0].Insurer_FullName_D[0]",
            Lambda(Call("_carrier", <<D, Const(JStr("D"))>>))>>,
      <<"F[0].P1[0].Insurer_NAICCode_D[0]",
            Lambda(Call("_carrier_naic", <<D, Const(JStr("D"))>>))>>,
      <<"F[0].P1[0].Insurer_FullName_E[0]",
            Lambda(Call("_carrier", <<D, Const(JStr("E"))>>))>>,
      <<"F[0].P1[0].Insurer_NAICCode_E[0]",
            Lambda(Call("_carrier_naic", <<D, Const(JStr("E"))>>))>>,
      <<"F[0].P1[0].Insurer_FullName_F[0]",
            Lambda(Call("_carrier", <<D, Const(JStr("F"))>>))>>,
      <<"F[0].P1[0].Insurer_NAICCode_F[0]",
            Lambda(Call("_carrier_naic", <<D, Const(JStr("F"))>>))>>,
      <<"F[0].P1[0].GarageLiability_InsurerLetterCode_A[0]",
            Lambda(Or(Call("_a30", <<D, Const(JStr("insurerLetter"))>>),
              IfElse(Call("_has_a30_garage", <<D>>), Const(JStr("A")),
              Const(JStr("")))))>>,
      <<"F[0].P1[0].Policy_PolicyNumberIdentifier_A[0]",
            Lambda(Call("_a30", <<D, Const(JStr("policyNumber"))>>))>>,
      <<"F[0].P1[0].Policy_EffectiveDate_A[0]",
            Lambda(Call("_a30", <<D, Const(JStr("effectiveDate"))>>))>>,
      <<"F[0].P1[0].Policy_ExpirationDate_A[0]",
            Lambda(Call("_a30", <<D, Const(JStr("expirationDate"))>>))>>,
      <<"F[0].P1[0].GarageLiability_AllOwnedAutosIndicator_A[0]",
            Lambda(Call("bool", <<Call("_a30_gl", <<D,
              Const(JStr("allOwnedAutos"))>>)>>))>>,
      <<"F[0].P1[0].GarageLiability_HiredAutosIndicator_A[0]",
            Lambda(Call("bool", <<Call("_a30_gl", <<D,
              Const(JStr("hiredAutos"))>>)>>))>>,
      <<"F[0].P1[0].GarageLiability_NonOwnedAutosUsedInGarageBusinessIndicator_A[0]",
            Lambda(Call("bool", <<Call("_a30_gl", <<D,
              Const(JStr("nonOwnedAutos"))>>)>>))>>,
      <<"F[0].P1[0].GarageLiability_OtherIndicator_A[0]",
            Lambda(Const(JBool(FALSE)))>>,
      <<"F[0].P1[0].GarageLiability_OtherDescription_A[0]",
            Lambda(Const(JStr("")))>>,
      <<"F[0].P1[0].GarageLiability_AutoOnly_EachAccidentLimitAmount_A[0]",
            Lambda(Call("_fm", <<Call("_a30_gl", <<D,
              Const(JStr("autoOnlyEachAccident"))>>)>>))>>,
      <<"F[0].P1[0].GarageLiability_OtherThanAutoOnly_EachAccidentLimitAmount_A[0]",
            Lambda(Call("_fm", <<Call("_a30_gl", <<D,
              Const(JStr("otherThanAutoOnly"))>>)>>))>>,
      <<"F[0].P1[0].GarageLiability_OtherThanAutoOnly_AggregateLimitAmount_A[0]",
            Lambda(Call("_fm", <<Call("_a30_gl", <<D,
              Const(JStr("autoOnlyAggregate"))>>)>>))>>,
      <<"F[0].P1[0].CertificateOfInsurance_AdditionalInsuredCode_A[0]",
            Lambda(IfElse(And(Call("_a30", <<D,
              Const(JStr("policyNumber"))>>), Call("_a30e", <<D,
              Const(JStr("additionalInsured"))>>)), Const(JStr("Y")),
              Const(JStr(""))))>>,
      <<"F[0].P1[0].Policy_SubrogationWaivedCode_A[0]",
            Lambda(IfElse(And(Call("_a30", <<D,
              Const(JStr("policyNumber"))>>), Call("_a30e", <<D,
              Const(JStr("waiverOfSubrogation"))>>)), Const(JStr("Y")),
              Const(JStr(""))))>>,
      <<"F[0].P1[0].GarageKeepersLiability_InsurerLetterCode_A[0]",
            Lambda(Or(Call("_a30", <<D, Const(JStr("insurerLetter"))>>),
              IfElse(Call("_has_a30_garage", <<D>>), Const(JStr("A")),
              Const(JStr("")))))>>,
      <<"F[0].P1[0].Policy_PolicyNumberIdentifier_B[0]",
            Lambda(Call("_a30", <<D, Const(JStr("policyNumber"))>>))>>,
      <<"F[0].P1[0].Policy_EffectiveDate_B[0]",
            Lambda(Call("_a30", <<D, Const(JStr("effectiveDate"))>>))>>,
      <<"F[0].P1[0].Policy_ExpirationDate_B[0]",
            Lambda(Call("_a30", <<D, Const(JStr("expirationDate"))>>))>>,
      <<"F[0].P1[0].GarageKeepersLiability_LegalLiabilityIndicator_A[0]",
            Lambda(Call("bool", <<Call("_a30_gk", <<D,
              Const(JStr("legalLiability"))>>)>>))>>,
      <<"F[0].P1[0].GarageKeepersLiability_DirectBasisIndicator_A[0]",
            Lambda(Call("bool", <<Call("_a30_gk", <<D,
              Const(JStr("directBasis"))>>)>>))>>,
      <<"F[0].P1[0].GarageKeepersLiability_PrimaryIndicator_A[0]",
            Lambda(Call("bool", <<Call("_a30_gk", <<D,
              Const(JStr("primary"))>>)>>))>>,
      <<"F[0].P1[0].GarageKeepersLiability_ExcessIndicator_A[0]",
            Lambda(Call("bool", <<Call("_a30_gk", <<D,
              Const(JStr("excess"))>>)>>))>>,
      <<"F[0].P1[0].GarageKeepersLiability_ComprehensiveIndicator_A[0]",
            Lambda(Call("bool", <<Call("_a30_gk", <<D,
              Const(JStr("comprehensive"))>>)>>))>>,
      <<"F[0].P1[0].GarageKeepersLiability_SpecifiedPerilsIndicator_A[0]",
            Lambda(Call("bool", <<Call("_a30_gk", <<D,
              Const(JStr("specifiedPerils"))>>)>>))>>,
      <<"F[0].P1[0].GarageKeepersLiability_CollisionIndicator_A[0]",
            Lambda(Call("bool", <<Call("_a30_gk", <<D,
              Const(JStr("collision"))>>)>>))>>,
      <<"F[0].P1[0].GarageKeepersLiability_ComprehensiveOrSpecifiedPerilsLimitAmount_A[0]",
            Lambda(Call("_fm", <<Call("_a30_gk", <<D,
              Const(JStr("comprehensive"))>>)>>))>>,
      <<"F[0].P1[0].GarageKeepersLiability_ComprehensiveOrSpecifiedPerilsLimitAmount_B[0]",
            Lambda(Const(JStr("")))>>,
      <<"F[0].P1[0].GarageKeepersLiability_CollisionLimitAmount_A[0]",
            Lambda(Call("_fm", <<Call("_a30_gk", <<D,
              Const(JStr("collision"))>>)>>))>>,
      <<"F[0].P1[0].GarageKeepersLiability_CollisionLimitAmount_B[0]",
            Lambda(Const(JStr("")))>>,
      <<"F[0].P1[0].GarageKeepersLiability_LocationProducerIdentifier_A[0]",
            Lambda(Const(JStr("")))>>,
      <<"F[0].P1[0].GarageKeepersLiability_LocationProducerIdentifier_B[0]",
            Lambda(Const(JStr("")))>>,
      <<"F[0].P1[0].GarageKeepersLiability_LocationProducerIdentifier_C[0]",
            Lambda(Const(JStr("")))>>,
      <<"F[0].P1[0].GarageKeepersLiability_LocationProducerIdentifier_D[0]",
            Lambda(Const(JStr("")))>>,
      <<"F[0].P1[0].CertificateOfInsurance_AdditionalInsuredCode_B[0]",
            Lambda(Const(JStr("")))>>,
      <<"F[0].P1[0].Policy_SubrogationWaivedCode_B[0]",
            Lambda(Const(JStr("")))>>,
      <<"F[0].P1[0].GeneralLiability_InsurerLetterCode_A[0]",
            Lambda(IfElse(Call("_has_a30_cgl", <<D>>), Or(Call("_a30", <<D,
              Const(JStr("insurerLetter"))>>), IfElse(Call("_has_a30_cgl",
              <<D>>), Const(JStr("A")), Const(JStr("")))),
              Const(JStr(""))))>>,
      <<"F[0].P1[0].Policy_PolicyNumberIdentifier_C[0]",
            Lambda(IfElse(Call("_a30_cgl", <<D, Const(JStr("included"))>>),
              Call("_a30", <<D, Const(JStr("policyNumber"))>>),
              Const(JStr(""))))>>,
      <<"F[0].P1[0].Policy_EffectiveDate_C[0]",
            Lambda(IfElse(Call("_a30_cgl", <<D, Const(JStr("included"))>>),
              Call("_a30", <<D, Const(JStr("effectiveDate"))>>),
              Const(JStr(""))))>>,
      <<"F[0].P1[0].Policy_ExpirationDate_C[0]",
            Lambda(IfElse(Call("_a30_cgl", <<D, Const(JStr("included"))>>),
              Call("_a30", <<D, Const(JStr("expirationDate"))>>),
              Const(JStr(""))))>>,
      <<"F[0].P1[0].GeneralLiability_CoverageIndicator_A[0]",
            Lambda(Call("_has_a30_cgl", <<D>>))>>,
      <<"F[0].P1[0].GeneralLiability_ClaimsMadeIndicator_A[0]",
            Lambda(Const(JBool(FALSE)))>>,
      <<"F[0].P1[0].GeneralLiability_OccurrenceIndicator_A[0]",
            Lambda(Call("bool", <<Call("_a30_cgl", <<D,
              Const(JStr("included"))>>)>>))>>,
      <<"F[0].P1[0].GeneralLiability_EachOccurrence_LimitAmount_A[0]",
            Lambda(Call("_fm", <<Call("_a30_cgl", <<D,
              Const(JStr("eachOccurrence"))>>)>>))>>,
      <<"F[0].P1[0].GeneralLiability_FireDamageRentedPremises_EachOccurrenceLimitAmount_A[0]",
            Lambda(Call("_fm", <<Call("_a30_cgl", <<D,
              Const(JStr("damageToRentedPremises"))>>)>>))>>,
      <<"F[0].P1[0].GeneralLiability_MedicalExpense_EachPersonLimitAmount_A[0]",
            Lambda(Call("_fm", <<Call("_a30_cgl", <<D,
              Const(JStr("medicalExpense"))>>)>>))>>,
      <<"F[0].P1[0].GeneralLiability_PersonalAndAdvertisingInjury_LimitAmount_A[0]",
            Lambda(Call("_fm", <<Call("_a30_cgl", <<D,
              Const(JStr("personalAdvInjury"))>>)>>))>>,
      <<"F[0].P1[0].GeneralLiability_GeneralAggregate_LimitAmount_A[0]",
            Lambda(Call("_fm", <<Call("_a30_cgl", <<D,
              Const(JStr("generalAggregate"))>>)>>))>>,
      <<"F[0].P1[0].GeneralLiability_ProductsAndCompletedOperations_AggregateLimitAmount_A[0]",
            Lambda(Call("_fm", <<Call("_a30_cgl", <<D,
              Const(JStr("productsCompOp"))>>)>>))>>,
      <<"F[0].P1[0].GeneralLiability_GeneralAggregate_LimitAppliesPerPolicyIndicator_A[0]",
            Lambda(Call("_has_a30_cgl", <<D>>))>>,
      <<"F[0].P1[0].GeneralLiability_GeneralAggregate_LimitAppliesPerProjectIndicator_A[0]",
            Lambda(Const(JBool(FALSE)))>>,
      <<"F[0].P1[0].GeneralLiability_GeneralAggregate_LimitAppliesPerLocationIndicator_A[0]",
            Lambda(Const(JBool(FALSE)))>>,
      <<"F[0].P1[0].GeneralLiability_OtherCoverageIndicator_A[0]",
            Lambda(Const(JBool(FALSE)))>>,
      <<"F[0].P1[0].GeneralLiability_OtherCoverageIndicator_B[0]",
            Lambda(Const(JBool(FALSE)))>>,
      <<"F[0].P1[0].GeneralLiability_OtherCoverageDescription_A[0]",
            Lambda(Const(JStr("")))>>,
      <<"F[0].P1[0].GeneralLiability_OtherCoverageDescription_B[0]",
            Lambda(Const(JStr("")))>>,
      <<"F[0].P1[0].GeneralLiability_OtherCoverageLimitAmount_A[0]",
            Lambda(Const(JStr("")))>>,
      <<"F[0].P1[0].GeneralLiability_OtherCoverageLimitDescription_A[0]",
            Lambda(Const(JStr("")))>>,
      <<"F[0].P1[0].CertificateOfInsurance_AdditionalInsuredCode_C[0]",
            Lambda(IfElse(And(Call("_a30_cgl", <<D,
              Const(JStr("included"))>>), Call("_a30e", <<D,
              Const(JStr("additionalInsured"))>>)), Const(JStr("Y")),
              Const(JStr(""))))>>,
      <<"F[0].P1[0].Policy_SubrogationWaivedCode_C[0]",
            Lambda(IfElse(And(Call("_a30_cgl", <<D,
              Const(JStr("included"))>>), Call("_a30e", <<D,
              Const(JStr("waiverOfSubrogation"))>>)), Const(JStr("Y")),
              Const(JStr(""))))>>,
      <<"F[0].P1[0].OtherPolicy_InsurerLetterCode_A[0]",
            Lambda(Const(JStr("")))>>,
      <<"F[0].P1[0].OtherPolicy_OtherPolicyDescription_A[0]",
            Lambda(Const(JStr("")))>>,
      <<"F[0].P1[0].Policy_PolicyNumberIdentifier_D[0]",
            Lambda(Const(JStr("")))>>,
      <<"F[0].P1[0].Policy_EffectiveDate_D[0]", Lambda(Const(JStr("")))>>,
      <<"F[0].P1[0].Policy_ExpirationDate_D[0]", Lambda(Const(JStr("")))>>,
      <<"F[0].P1[0].OtherPolicy_CoverageLimitAmount_A[0]",
            Lambda(Const(JStr("")))>>,
      <<"F[0].P1[0].CertificateOfInsurance_AdditionalInsuredCode_D[0]",
            Lambda(Const(JStr("")))>>,
      <<"F[0].P1[0].Policy_SubrogationWaivedCode_D[0]",
            Lambda(Const(JStr("")))>>,
      <<"F[0].P1[0].ExcessUmbrella_InsurerLetterCode_A[0]",
            Lambda(Or(Call("_a30_umb", <<D, Const(JStr("insurerLetter"))>>),
              IfElse(Call("_has_a30_umbrella", <<D>>), Const(JStr("A")),
              Const(JStr("")))))>>,
      <<"F[0].P1[0].Policy_PolicyNumberIdentifier_E[0]",
            Lambda(Call("_a30_umb", <<D, Const(JStr("policyNumber"))>>))>>,
      <<"F[0].P1[0].Policy_EffectiveDate_E[0]",
            Lambda(Call("_a30_umb", <<D, Const(JStr("effectiveDate"))>>))>>,
      <<"F[0].P1[0].Policy_ExpirationDate_E[0]",
            Lambda(Call("_a30_umb", <<D, Const(JStr("expirationDate"))>>))>>,
      <<"F[0].P1[0].Policy_PolicyType_UmbrellaIndicator_A[0]",
            Lambda(Call("bool", <<Call("_a30_umb", <<D,
              Const(JStr("eachOccurrence"))>>)>>))>>,
      <<"F[0].P1[0].Policy_PolicyType_ExcessIndicator_A[0]",
            Lambda(Const(JBool(FALSE)))>>,
      <<"F[0].P1[0].ExcessUmbrella_OccurrenceIndicator_A[0]",
            Lambda(Call("bool", <<Call("_a30_umb", <<D,
              Const(JStr("eachOccurrence"))>>)>>))>>,
      <<"F[0].P1[0].ExcessUmbrella_ClaimsMadeIndicator_A[0]",
            Lambda(Const(JBool(FALSE)))>>,
      <<"F[0].P1[0].ExcessUmbrella_DeductibleIndicator_A[0]",
            Lambda(Const(JBool(FALSE)))>>,
      <<"F[0].P1[0].ExcessUmbrella_RetentionIndicator_A[0]",
            Lambda(Call("bool", <<Call("_a30_umb", <<D,
              Const(JStr("retention"))>>)>>))>>,
      <<"F[0].P1[0].ExcessUmbrella_Umbrella_EachOccurrenceAmount_A[0]",
            Lambda(Call("_fm", <<Call("_a30_umb", <<D,
              Const(JStr("eachOccurrence"))>>)>>))>>,
      <<"F[0].P1[0].ExcessUmbrella_Umbrella_AggregateAmount_A[0]",
            Lambda(Call("_fm", <<Call("_a30_umb", <<D,
              Const(JStr("aggregate"))>>)>>))>>,
      <<"F[0].P1[0].ExcessUmbrella_Umbrella_DeductibleOrRetentionAmount_A[0]",
            Lambda(Call("_fm", <<Call("_a30_umb", <<D,
              Const(JStr("retention"))>>)>>))>>,
      <<"F[0].P1[0].ExcessUmbrella_OtherCoverageDescription_A[0]",
            Lambda(Const(JStr("")))>>,
      <<"F[0].P1[0].ExcessUmbrella_OtherCoverageLimitAmount_A[0]",
            Lambda(Const(JStr("")))>>,
      <<"F[0].P1[0].CertificateOfInsurance_AdditionalInsuredCode_F[0]",
            Lambda(Const(JStr("")))>>,
      <<"F[0].P1[0].Policy_SubrogationWaivedCode_E[0]",
            Lambda(Const(JStr("")))>>,
      <<"F[0].P1[0].WorkersCompensationEmployersLiability_InsurerLetterCode_A[0]",
            Lambda(Or(Call("_a30_wc", <<D, Const(JStr("insurerLetter"))>>),
              IfElse(Call("_has_a30_wc", <<D>>), Const(JStr("A")),
              Const(JStr("")))))>>,
      <<"F[0].P1[0].Policy_PolicyNumberIdentifier_F[0]",
            Lambda(Call("_a30_wc", <<D, Const(JStr("policyNumber"))>>))>>,
      <<"F[0].P1[0].Policy_EffectiveDate_F[0]",
            Lambda(Call("_a30_wc", <<D, Const(JStr("effectiveDate"))>>))>>,
      <<"F[0].P1[0].Policy_ExpirationDate_F[0]",
            Lambda(Call("_a30_wc", <<D, Const(JStr("expirationDate"))>>))>>,
      <<"F[0].P1[0].WorkersCompensationEmployersLiability_WorkersCompensationStatutoryLimitIndicator_A[0]",
            Lambda(Call("bool", <<Call("_a30_wc", <<D,
              Const(JStr("eachAccident"))>>)>>))>>,
      <<"F[0].P1[0].WorkersCompensationEmployersLiability_OtherCoverageIndicator_A[0]",
            Lambda(Const(JBool(FALSE)))>>,
      <<"F[0].P1[0].WorkersCompensationEmployersLiability_OtherCoverageDescription_A[0]",
            Lambda(Const(JStr("")))>>,
      <<"F[0].P1[0].WorkersCompensationEmployersLiability_AnyPersonsExcludedIndicator_A[0]",
            Lambda(Const(JStr("")))>>,
      <<"F[0].P1[0].WorkersCompensationEmployersLiability_EmployersLiability_EachAccidentLimitAmount_A[0]",
            Lambda(Call("_fm", <<Call("_a30_wc", <<D,
              Const(JStr("eachAccident"))>>)>>))>>,
      <<"F[0].P1[0].WorkersCompensationEmployersLiability_EmployersLiability_DiseaseEachEmployeeLimitAmount_A[0]",
            Lambda(Call("_fm", <<Call("_a30_wc", <<D,
              Const(JStr("diseaseEachEmployee"))>>)>>))>>,
      <<"F[0].P1[0].WorkersCompensationEmployersLiability_EmployersLiability_DiseasePolicyLimitAmount_A[0]",
            Lambda(Call("_fm", <<Call("_a30_wc", <<D,
              Const(JStr("diseasePolicyLimit"))>>)>>))>>,
      <<"F[0].P1[0].Policy_SubrogationWaivedCode_F[0]",
            Lambda(IfElse(And(Call("_a30_wc", <<D,
              Const(JStr("policyNumber"))>>), Call("_a30e", <<D,
              Const(JStr("waiverOfSubrogation"))>>)), Const(JStr("Y")),
              Const(JStr(""))))>>,
      <<"F[0].P1[0].CertificateOfLiabilityInsurance_ACORDForm_RemarkText_A[0]",
            Lambda(Call("_a30", <<D, Const(JStr("remarks"))>>))>>,
      <<"F[0].P1[0].CertificateHolder_FullName_A[0]",
            Lambda(Call("_a30_ch", <<D, Const(JStr("name"))>>))>>,
      <<"F[0].P1[0].CertificateHolder_MailingAddress_LineOne_A[0]",
            Lambda(Call("_al1", <<Call("_a30_ch", <<D,
              Const(JStr("address"))>>)>>))>>,
      <<"F[0].P1[0].CertificateHolder_MailingAddress_LineTwo_A[0]",
            Lambda(Call("_al2", <<Call("_a30_ch", <<D,
              Const(JStr("address"))>>)>>))>>,
      <<"F[0].P1[0].CertificateHolder_MailingAddress_CityName_A[0]",
            Lambda(Call("_aci", <<Call("_a30_ch", <<D,
              Const(JStr("address"))>>)>>))>>,
      <<"F[0].P1[0].CertificateHolder_MailingAddress_StateOrProvinceCode_A[0]",
            Lambda(Call("_ast", <<Call("_a30_ch", <<D,
              Const(JStr("address"))>>)>>))>>,
      <<"F[0].P1[0].CertificateHolder_MailingAddress_PostalCode_A[0]",
            Lambda(Call("_azp", <<Call("_a30_ch", <<D,
              Const(JStr("address"))>>)>>))>>
    >>

\* ACORD30_FIELDS, acord_filler.py:558-736
ACORD30_FIELDS == dict_of(ACORD30_ITEMS)

-----------------------------------------------------------------------------
(* acord_filler.py: the PDF filling engine (lines 748-877) *)

\* a value of a field map that is not callable
Plain(v) == [r |-> "plain", v |-> v]

ACORD25_KEYS == DOMAIN ACORD25_FIELDS
ACORD27_KEYS == DOMAIN ACORD27_FIELDS
ACORD30_KEYS == DOMAIN ACORD30_FIELDS

\* ACORD28_FIELDS = {}, acord_filler.py:741
ACORD28_FIELDS == <<>>

\* configs[num][1], acord_filler.py:905-910
configs(num) ==
    CASE num = "25" -> ACORD25_FIELDS
      [] num = "27" -> ACORD27_FIELDS
      [] num = "28" -> ACORD28_FIELDS
      [] num = "30" -> ACORD30_FIELDS

\* resolver(data) if callable(resolver) else resolver, acord_filler.py:805
call_resolver(resolver, d) ==
    IF resolver.r = "plain" THEN resolver.v ELSE py_eval(resolver.body, d)

\* val is None or val == "" or val is False, acord_filler.py:810
skipped(val) == IsNone(val) \/ val = JStr("") \/ val = JBool(FALSE)

\* what each resolver of the map gives when it is called on the document,
\* acord_filler.py:803-805
resolved(fm, d) == [name \in DOMAIN fm |-> call_resolver(fm[name], d)]

raised_names(vals) == {name \in DOMAIN vals : IsRaised(vals[name])}

\* the field names whose resolver raises: one warning each, acord_filler.py:806-808
resolve_errors(fm, d) == raised_names(resolved(fm, d))

Values(f) == [k |-> "values", of |-> f]

notry_values(vals) ==
    IF raised_names(vals) /= {} THEN Raised
    ELSE Values([name \in {n \in DOMAIN vals : ~skipped(vals[n])} |-> vals[name]])

\* the resolve loop without its try: the first exception leaves fill_pdf
resolve_values_notry(fm, d) == notry_values(resolved(fm, d))

\* the values the loop keeps, acord_filler.py:806-812: a raising resolver is
\* passed over, and so is a value that is None, "" or False
kept_values(vals) ==
    Values([name \in {n \in DOMAIN vals : ~IsRaised(vals[n]) /\ ~skipped(vals[n])} |->
               vals[name]])

\* fill_values after the resolve loop, acord_filler.py:802-812
resolve_values(fm, d) == kept_values(resolved(fm, d))

\* an annotation: /T ("" when it has none), /FT ("" when it has none), the
\* /AP entry, the chain of its parents from the nearest, /V and /AS
NoAP == [present |-> FALSE, states |-> <<>>]
AP(states) == [present |-> TRUE, states |-> states]
NoValue == [k |-> "unset"]
NameObject(s) == [k |-> "name", s |-> s]
TextStringObject(s) == [k |-> "text", s |-> s]
Node(t, ft) == [T |-> t, FT |-> ft]
Annot(t, ft, ap, parents) ==
    [T |-> t, FT |-> ft, AP |-> ap, parents |-> parents, V |-> NoValue, AS |-> NoValue]

\* a page: whether it has an /Annots entry, and its annotations
Page(annots) == [has |-> TRUE, annots |-> annots]
BarePage == [has |-> FALSE, annots |-> <<>>]

\* _discover_checkbox_on_state(annot), acord_filler.py:748-763
RECURSIVE first_on_state(_)
first_on_state(states) ==
    IF states = <<>> THEN "/Yes"
    ELSE IF Head(states) /= "/Off" THEN Head(states)
    ELSE first_on_state(Tail(states))

_discover_checkbox_on_state(annot) ==
    IF ~annot.AP.present THEN "/Yes" ELSE first_on_state(annot.AP.states)

\* the first /FT up the parent chain, acord_filler.py:771-778
RECURSIVE parent_type(_)
parent_type(parents) ==
    IF parents = <<>> THEN ""
    ELSE IF Head(parents).FT /= "" THEN Head(parents).FT
    ELSE parent_type(Tail(parents))

\* _get_field_type(annot), acord_filler.py:766-778
_get_field_type(annot) ==
    IF annot.FT /= "" THEN annot.FT ELSE parent_type(annot.parents)

\* the names up the parent chain, outermost first, acord_filler.py:785-791
RECURSIVE parent_names(_)
parent_names(parents) ==
    IF parents = <<>> THEN <<>>
    ELSE parent_names(Tail(parents)) \o
         (IF Head(parents).T /= "" THEN <<Head(parents).T>> ELSE <<>>)

\* _get_qualified_name(annot), acord_filler.py:781-792
_get_qualified_name(annot) ==
    str_join(".", parent_names(annot.parents) \o
                  (IF annot.T /= "" THEN <<annot.T>> ELSE <<>>))

\* fill_values.get(name)
value_get(fv, name) == IF name \in DOMAIN fv THEN fv[name] ELSE JNull

\* fill_values.get(short_name) or fill_values.get(qualified), acord_filler.py:831
match_value(annot, fv) ==
    py_or(value_get(fv, annot.T), value_get(fv, _get_qualified_name(annot)))

\* the test of line 839 with the truth of the value in its place: every
\* truthy value ticks the box
checks_truthy(val) == Truthy(val)

\* val is True or (isinstance(val, str) and val.upper() in ("Y", "YES"))
checks(val) == val = JBool(TRUE) \/ (val.k = "str" /\ str_upper(val.s) \in {"Y", "YES"})

\* the walk writes into this annotation, acord_filler.py:831-855
is_filled(annot, fv) ==
    LET val == match_value(annot, fv)
    IN  /\ ~IsNone(val)
        /\ _get_field_type(annot) = "/Btn" => checks(val)

\* the annotation after the walk passed it, acord_filler.py:826-855
fill_annot(annot, fv) ==
    LET val == match_value(annot, fv)
        on_state == _discover_checkbox_on_state(annot)
    IN  IF ~is_filled(annot, fv) THEN annot
        ELSE IF _get_field_type(annot) = "/Btn"
             THEN [annot EXCEPT !.V = NameObject(on_state), !.AS = NameObject(on_state)]
        ELSE [annot EXCEPT !.V = TextStringObject(py_str(val).s), !.AP = NoAP]

\* short_name or qualified, acord_filler.py:846, 855
matched_name(annot) == IF annot.T /= "" THEN annot.T ELSE _get_qualified_name(annot)

\* the pages after the walk, acord_filler.py:822-855
fill_pages(pages, fv) ==
    [p \in DOMAIN pages |->
        IF ~pages[p].has THEN pages[p]
        ELSE [pages[p] EXCEPT !.annots =
                 [a \in DOMAIN pages[p].annots |-> fill_annot(pages[p].annots[a], fv)]]]

\* matched_fields after the walk
fill_matched(pages, fv) ==
    UNION {{matched_name(pages[p].annots[a]) :
               a \in {b \in DOMAIN pages[p].annots : is_filled(pages[p].annots[b], fv)}} :
           p \in {q \in DOMAIN pages : pages[q].has}}

\* a PDF file: its pages, whether it has an /AcroForm, /NeedAppearances
PdfFile(pages, acroform, need) ==
    [k |-> "pdf", pages |-> pages, acroform |-> acroform, need |-> need]
Garbage == [k |-> "garbage"]
NoFile == [k |-> "nofile"]
EmptyFile == [k |-> "empty"]

\* what writer.write leaves at output_path, acord_filler.py:858-865
written_file(template, pages) ==
    PdfFile(pages, template.acroform, template.acroform \/ template.need)

-----------------------------------------------------------------------------
(* acord_filler.py: fill_pdf on objects (lines 795-877) *)

\* The caller's document is made of objects, as in the backfill pass of
\* app.py, and fill_pdf makes objects of its own: fill_values, and the pages
\* and annotations the writer clones from the template. The heap holds the
\* document first: its objects are those at the addresses 1..n, data being
\* the n-th.

\* line 802 as fill_values = data: the loop keeps what it resolves in the
\* document
heap_fill_values_document(m) == m

\* line 802, fill_values = {}: a new object; an object of the heap that is a
\* table of values holds a value or a reference under each name
heap_fill_values(m) == heap_new(m.h, Values(<<>>))

\* fill_pdf at work: the heap, the document, the object fill_values and the
\* number of items of field_map the loop of line 803 has taken
Filling(m, values) ==
    [h |-> values.h, data |-> m.at, fill_values |-> values.at, taken |-> 0]

\* the argument of resolver(data), line 805: what s holds in the heap h, as
\* heap_value gives it, each dict and each list with the address of the
\* object it is under obj. What a .get(key), an x or y or a loop over a list
\* hands on is the member as it stands, and so the object; the {} of a
\* default and the text _fm returns are made by the resolver and carry no
\* address
RECURSIVE heap_object(_, _)
heap_object(h, s) ==
    IF ~IsRef(s) THEN s
    ELSE IF h[s.a].k = "list"
         THEN [k |-> "list",
               l |-> [i \in 1..Len(h[s.a].l) |-> heap_object(h, h[s.a].l[i])],
               obj |-> s.a]
    ELSE [h[s.a] EXCEPT !.d = [key \in DOMAIN h[s.a].d |-> heap_object(h, h[s.a].d[key])]]
         @@ [obj |-> s.a]

\* what line 805 binds val to when the resolver returns v: a text, a number,
\* a bool or None is the value itself; a dict or a list that the resolver read
\* from the document is that object, and one the resolver made, as the {} of
\* d.get(key, {}) or of x or {}, is a new object
heap_resolved(h, v) ==
    IF v.k \notin {"dict", "list"} THEN Evaluated(h, v)
    ELSE IF "obj" \in DOMAIN v THEN Evaluated(h, Ref(v.obj))
    ELSE heap_load(h, v)

\* obj[name] = s on the object at address a: a table of values, or a dict
heap_put(h, a, name, s) ==
    IF h[a].k = "values"
    THEN [h EXCEPT ![a] = Values([key \in DOMAIN h[a].of \cup {name} |->
                                     IF key = name THEN s ELSE h[a].of[key]])]
    ELSE heap_set(h, a, name, s)

\* line 812, fill_values[field_name] = val, m.at being val
fill_store(run, field_name, m) ==
    [run EXCEPT !.h = heap_put(m.h, run.fill_values.a, field_name, m.at)]

\* acord_filler.py:804-812 for one name, v being what the resolver returns on
\* the document as it is now, or Raised
fill_resolve_one(run, field_name, v) ==
    IF IsRaised(v) \/ skipped(v) THEN run
    ELSE fill_store(run, field_name, heap_resolved(run.h, v))

\* the names of a small field map, each once
RECURSIVE names_of(_)
names_of(names) ==
    IF names = {} THEN <<>>
    ELSE <<CHOOSE name \in names : TRUE>>
         \o names_of(names \ {CHOOSE name \in names : TRUE})

item_names(items) == [i \in DOMAIN items |-> items[i][1]]

\* the names of field_map.items() in their order, line 803: that of the
\* table; the other field maps are taken in an order of their names
field_names(fm) ==
    IF fm = ACORD25_FIELDS THEN item_names(ACORD25_ITEMS)
    ELSE IF fm = ACORD27_FIELDS THEN item_names(ACORD27_ITEMS)
    ELSE IF fm = ACORD30_FIELDS THEN item_names(ACORD30_ITEMS)
    ELSE names_of(DOMAIN fm)

\* one pass of the loop of line 803: the resolver is called on the object data
\* as it is
fill_resolve_next(run, fm, field_name) ==
    [fill_resolve_one(run, field_name,
                      call_resolver(fm[field_name], heap_object(run.h, run.data)))
        EXCEPT !.taken = run.taken + 1]

\* acord_filler.py:803-812, the loop over field_map.items() from where run
\* stands until it has taken upto names: half of them, then the others
RECURSIVE fill_resolve(_, _, _, _)
fill_resolve(run, fm, names, upto) ==
    IF run.taken >= upto THEN run
    ELSE IF run.taken + 1 = upto THEN fill_resolve_next(run, fm, names[upto])
    ELSE fill_resolve(fill_resolve(run, fm, names, (run.taken + upto) \div 2),
                      fm, names, upto)

\* acord_filler.py:802-812 on the document loaded as m
fill_resolve_from(m, fm) ==
    fill_resolve(Filling(m, heap_fill_values(m)), fm, field_names(fm),
                 Cardinality(DOMAIN fm))

\* fill_pdf(template_path, output_path, fm, d) up to line 812
fill_resolved(fm, d) == fill_resolve_from(heap_load(<<>>, d), fm)

\* the document in the heap of run
doc_in(run) == heap_value(run.h, run.data)

\* what the object at address a holds under each name: a table of values, or
\* a dict
heap_held(h, a) == IF h[a].k = "values" THEN h[a].of ELSE h[a].d

\* fill_values in the heap of run, each name with the value it holds
values_in(run) ==
    [name \in DOMAIN heap_held(run.h, run.fill_values.a) |->
        heap_value(run.h, heap_held(run.h, run.fill_values.a)[name])]

\* data after the resolve loop
doc_after_resolve(fm, d) == doc_in(fill_resolved(fm, d))

\* writer.clone_document_from_reader(reader), line 799: the annotations of
\* the pages are new objects of the heap; at[p][i] is the address of the i-th
\* annotation of page p
RECURSIVE heap_clone(_, _)
heap_clone(m, pages) ==
    IF Len(m.at) = Len(pages) THEN m
    ELSE heap_clone(
           Evaluated(m.h \o pages[Len(m.at) + 1].annots,
                     Append(m.at, [i \in DOMAIN pages[Len(m.at) + 1].annots |->
                                      Len(m.h) + i])),
           pages)

\* acord_filler.py:826-855 for the annotation at address a: annot.update and
\* del annot["/AP"] write into that object, with the name of the on state or
\* the text str(val), both new
walk_annot(run, a) ==
    [run EXCEPT !.h[a] = fill_annot(run.h[a], values_in(run))]

\* acord_filler.py:825-855, the first i annotations of one page
RECURSIVE walk_annots(_, _, _)
walk_annots(run, annots_at, i) ==
    IF i = 0 THEN run
    ELSE walk_annot(walk_annots(run, annots_at, i - 1), annots_at[i])

\* lines 822-825 for one page
walk_page(run, page, annots_at) ==
    IF page.has THEN walk_annots(run, annots_at, Len(annots_at)) ELSE run

\* acord_filler.py:822-855, the first p pages
RECURSIVE walk_pages(_, _, _, _)
walk_pages(run, pages, at, p) ==
    IF p = 0 THEN run
    ELSE walk_page(walk_pages(run, pages, at, p - 1), pages[p], at[p])

\* the pages of the writer in the heap of run
pages_in(run, pages, at) ==
    [p \in DOMAIN pages |->
        [pages[p] EXCEPT !.annots = [i \in DOMAIN at[p] |-> run.h[at[p][i]]]]]

walk_cloned(run, pages, m) ==
    [run |-> walk_pages([run EXCEPT !.h = m.h], pages, m.at, Len(pages)), at |-> m.at]

\* fill_pdf from line 818 on, after a resolve loop that left run
fill_walk(run, pages) == walk_cloned(run, pages, heap_clone(Evaluated(run.h, <<>>), pages))

\* data after the walk over the pages
doc_after_walk(fm, pages, d) == doc_in(fill_walk(fill_resolved(fm, d), pages).run)

-----------------------------------------------------------------------------
(* app.py: main, the extraction run (lines 503-558) and the forms metric *)

NoDoc == [k |-> "nodoc"]

Classification(f, doc_type, confidence) ==
    [filename |-> f, doc_type |-> doc_type, confidence |-> confidence]

NoForms == [given |-> FALSE]
FormsList(q) == [given |-> TRUE, list |-> q]

\* fill_acord_forms is not running
FormsIdle ==
    /\ formsArg = NoForms
    /\ templates = <<>>
    /\ todo = <<>>
    /\ results = <<>>
    /\ fpc = "off"

FillIdle ==
    /\ data = NoDoc
    /\ FormsIdle

\* fill_pdf is not running
PdfIdle ==
    /\ field_map = <<>>
    /\ pdf = <<>>
    /\ fill_values = <<>>
    /\ warnings = {}
    /\ written = <<>>
    /\ matched_fields = {}
    /\ unmatched = {}
    /\ outfile = <<>>
    /\ ppc = "off"

\* no call of a formatter is running
UnitIdle ==
    /\ unit_arg = NoDoc
    /\ unit_out = NoDoc
    /\ upc = "off"

-----------------------------------------------------------------------------
(* app.py: sections 2 to 4 of main, lines 561-729. No user input is modelled:  *)
(* every widget returns the value it is created with.                         *)

\* st.text_input(label, value): the value as text, None for None
text_input(value) == IF IsNone(value) THEN JNull ELSE py_str(value)

\* st.checkbox(label, value): the value as a bool
checkbox(value) == py_bool(value)

\* len(x): TypeError on a value without a length
has_len(x) == x.k \in {"str", "list", "dict"}

\* app.py:569-572, the statements before line 575 that can raise: the insured
\* name (569) and the number of carriers (572)
metrics_raise(result) ==
    \/ ~IsDict(result)
    \/ ~IsDict(dict_get(result, "insured", EmptyDict))
    \/ ~has_len(dict_get(result, "carriers", EmptyList))

\* app.py:585-587: the number of notes
notes_raise(result) ==
    /\ Truthy(dict_get(result, "_notes", EmptyList))
    /\ ~has_len(dict_get(result, "_notes", EmptyList))

int_of_signed(neg, body) ==
    IF int_digits(body, FALSE) = "" THEN ValueError
    ELSE JNum((IF neg THEN -1 ELSE 1) * digits_value(int_digits(body, FALSE), 0))

int_of_stripped(t) ==
    int_of_signed(t /= "" /\ Head(t) = "-",
                  IF t /= "" /\ Head(t) \in {"+", "-"} THEN Tail(t) ELSE t)

\* int(s) of a str: white space around, a sign, a digit part with single
\* underscores between digits; the number, or ValueError
int_of_text(s) == int_of_stripped(number_strip(s))

\* int(val.replace(",", ""))
int_of_input(s) == int_of_text(str_replace(s, ",", ""))

\* app.py:640-651, what one limit of the GL tab becomes
limit_of_text(new_val) ==
    IF new_val = "" \/ str_lower(new_val) = "none" THEN JNull
    ELSE IF str_lower(new_val) = "excluded" THEN JStr("Excluded")
    ELSE IF int_of_input(new_val) = ValueError THEN JStr(new_val)
    ELSE int_of_input(new_val)

limit_input(val) ==
    limit_of_text(text_input(IF IsNone(val) THEN JStr("") ELSE py_str(val)).s)

\* app.py:662-666 and the like: val = st.text_input(label, str(x.get(k, "")));
\* x[k] = int(val.replace(",", "")) if val else None, unchanged on ValueError
amount_of_text(val, old) ==
    IF val = "" THEN JNull
    ELSE IF int_of_input(val) = ValueError THEN old
    ELSE int_of_input(val)

\* obj[k] = st.text_input(label, obj.get(k, "")) for each k of keys
set_inputs(obj, keys) ==
    dict_put_all(obj, keys,
                 [f \in Range(keys) |-> text_input(dict_get(obj, f, JStr("")))])

\* obj[k] = st.checkbox(label, obj.get(k, False)) for each k of keys
set_checks(obj, keys) ==
    dict_put_all(obj, keys,
                 [f \in Range(keys) |-> checkbox(dict_get(obj, f, JBool(FALSE)))])

\* the amount fields of a section, each through amount_of_text
set_amounts(obj, keys) ==
    dict_put_all(obj, keys,
                 [f \in Range(keys) |->
                    amount_of_text(text_input(py_str(dict_get(obj, f, JStr("")))).s,
                                   dict_get(obj, f, JNull))])

\* The section as it runs: r is result with every write made so far, a the
\* local acord25 (JNull before line 625), own whether a is the object result
\* holds, ok whether no statement has raised.
Editing(r, a, own, ok) == [k |-> "editing", r |-> r, a |-> a, own |-> own, ok |-> ok]

Stop(e) == [e EXCEPT !.ok = FALSE]

\* a write to the local acord25: result sees it when it holds the object
WithA(e, a) ==
    Editing(IF e.own THEN dict_set(e.r, "acord25", a) ELSE e.r, a, e.own, e.ok)

\* app.py:601-606 and 609-611: producer and insured
edit_party(e, key, fields) ==
    IF ~e.ok THEN e
    ELSE IF ~IsDict(dict_get(e.r, key, EmptyDict)) THEN Stop(e)
    ELSE [e EXCEPT !.r = dict_set(e.r, key,
                            set_inputs(dict_get(e.r, key, EmptyDict), fields))]

\* the entries of cs from the j-th on, each edited, up to the first that is
\* not a dict
RECURSIVE edit_entries(_, _)
edit_entries(cs, j) ==
    IF j > Len(cs) \/ ~IsDict(cs[j]) THEN cs
    ELSE edit_entries([cs EXCEPT ![j] = set_inputs(cs[j], <<"letter", "name", "naic">>)],
                      j + 1)

\* app.py:614-622: the carriers tab
edit_carriers(e) ==
    IF ~e.ok THEN e
    ELSE IF IsRaised(iter_list(dict_get(e.r, "carriers", EmptyList))) THEN Stop(e)
    ELSE IF dict_get(e.r, "carriers", EmptyList).k /= "list" THEN e
    ELSE IF dict_get(e.r, "carriers", EmptyList).l = <<>> THEN e
    ELSE [e EXCEPT !.r = dict_set(e.r, "carriers",
                            JList(edit_entries(dict_get(e.r, "carriers", EmptyList).l, 1))),
                   !.ok = all_dicts(dict_get(e.r, "carriers", EmptyList).l)]

\* app.py:625: acord25 = result.get("acord25") or {}
edit_open(e) ==
    IF ~e.ok THEN e
    ELSE Editing(e.r, py_or(dict_get(e.r, "acord25", JNull), EmptyDict),
                 Truthy(dict_get(e.r, "acord25", JNull)), TRUE)

GlTexts == <<"insurerLetter", "policyNumber", "effectiveDate", "expirationDate">>
GlChecks == <<"occurrence", "claimsMade">>
GlLimits == <<"eachOccurrence", "damageToRentedPremises", "medicalExpense",
             "personalAdvInjury", "generalAggregate", "productsCompOp">>

\* app.py:630-635 on gl
edit_gl_fields(gl) == set_checks(set_inputs(gl, GlTexts), GlChecks)

\* app.py:637-651 on a gl whose limits are a dict or missing
edit_gl_limits(gl) ==
    dict_set(gl, "limits",
             dict_put_all(dict_get(gl, "limits", EmptyDict), GlLimits,
                          [f \in Range(GlLimits) |->
                             limit_input(dict_get(dict_get(gl, "limits", EmptyDict),
                                                  f, JNull))]))

\* app.py:626-654: the GL tab
edit_gl(e) ==
    IF ~e.ok THEN e
    ELSE IF ~IsDict(e.a) THEN Stop(e)
    ELSE IF ~Truthy(dict_get(e.a, "gl", JNull)) THEN e
    ELSE IF ~IsDict(e.a.d["gl"]) THEN Stop(e)
    ELSE IF ~IsDict(dict_get(e.a.d["gl"], "limits", EmptyDict))
         THEN Stop(WithA(e, dict_set(e.a, "gl", edit_gl_fields(e.a.d["gl"]))))
    ELSE WithA(e, dict_set(e.a, "gl", edit_gl_limits(edit_gl_fields(e.a.d["gl"]))))

\* app.py:657-695: the auto, umbrella and workers-compensation tabs
edit_section(e, section, texts, amounts) ==
    IF ~e.ok THEN e
    ELSE IF ~(Truthy(dict_get(e.a, section, JNull)) /\ IsDict(e.a.d[section])) THEN e
    ELSE WithA(e, dict_set(e.a, section,
                           set_amounts(set_inputs(e.a.d[section], texts), amounts)))

\* app.py:698-701: the certificate holder tab
edit_holder(e) ==
    IF ~e.ok THEN e
    ELSE IF ~IsDict(dict_get(e.a, "certificateHolder", EmptyDict)) THEN Stop(e)
    ELSE WithA(e, dict_set(e.a, "certificateHolder",
                           set_inputs(dict_get(e.a, "certificateHolder", EmptyDict),
                                      <<"name", "address">>)))

\* app.py:704-708: the endorsements tab
edit_endorsements(e) ==
    IF ~e.ok THEN e
    ELSE IF ~IsDict(dict_get(e.a, "endorsements", EmptyDict)) THEN Stop(e)
    ELSE WithA(e, dict_set(e.a, "endorsements",
                           set_checks(dict_get(e.a, "endorsements", EmptyDict),
                                      <<"additionalInsured", "waiverOfSubrogation",
                                        "primaryNonContributory">>)))

\* app.py:714: result["acord25"] = acord25
edit_attach(e) ==
    IF ~e.ok THEN e ELSE [e EXCEPT !.r = dict_set(e.r, "acord25", e.a)]

\* app.py:597-715, section 3 on the record result: the record as the section
\* leaves it and whether it ran to its end
edit_extraction(result) ==
    edit_attach(
      edit_endorsements(
        edit_holder(
          edit_section(
            edit_section(
              edit_section(
                edit_gl(
                  edit_open(
                    edit_carriers(
                      edit_party(
                        edit_party(Editing(result, JNull, FALSE, TRUE), "producer",
                                   <<"name", "contactName", "phone", "email", "address">>),
                        "insured", <<"name", "address">>)))),
                "auto", <<"policyNumber", "effectiveDate", "expirationDate">>,
                <<"combinedSingleLimit">>),
              "umbrella", <<"policyNumber">>, <<"eachOccurrence">>),
            "workersComp", <<"policyNumber", "effectiveDate", "expirationDate">>,
            <<"eachAccident", "diseasePolicyLimit", "diseaseEachEmployee">>))))

\* app.py:720-723: the forms section 4 offers
forms_to_generate_of(result) ==
    LET Valid(f) == f \in {"25", "27", "28", "30"}
    IN  IF ~IsDict(result) THEN Raised
        ELSE SelectSeq(determine_forms(result), Valid)

Init ==
    /\ files \in UNION {[1..n -> FileKinds] : n \in 1..MaxFiles}
    /\ pc = "classify"
    /\ classifications = <<>>
    /\ extractions = <<>>
    /\ reply = NoReply
    /\ path = "none"
    /\ mergeCalls = 0
    /\ primary = NoDoc
    /\ stored = NoDoc
    /\ forms = <<>>
    /\ forms_to_generate = <<>>
    /\ FillIdle
    /\ PdfIdle
    /\ UnitIdle

\* app.py:521-533: the classification call of the next file succeeds
ClassifyOk ==
    /\ pc = "classify"
    /\ LET f == files[Len(classifications) + 1]
       IN  classifications' =
               Append(classifications, Classification(f, DocTypeOf(f), 90))
    /\ pc' = "extract"
    /\ UNCHANGED <<files, extractions, reply, path, mergeCalls, primary, stored,
                   forms, forms_to_generate,
                   fillVars, pdfVars, unitVars>>

\* app.py:529-533: the classification call raises or answers no JSON
ClassifyFail ==
    /\ pc = "classify"
    /\ LET f == files[Len(classifications) + 1]
       IN  classifications' =
               Append(classifications, Classification(f, "unknown", 0))
    /\ pc' = "extract"
    /\ UNCHANGED <<files, extractions, reply, path, mergeCalls, primary, stored,
                   forms, forms_to_generate,
                   fillVars, pdfVars, unitVars>>

\* the loop of app.py:516 left after its first pass
AfterExtract_once == "merge"

\* app.py:516, 550: the next file, or the end of the loop
AfterExtract == IF Len(extractions') < Len(files) THEN "classify" ELSE "merge"

\* app.py:536-542: the extraction call of the file succeeds
ExtractOk ==
    /\ pc = "extract"
    /\ extractions' = Append(extractions, ExtractionOf(files[Len(extractions) + 1]))
    /\ pc' = AfterExtract
    /\ UNCHANGED <<files, classifications, reply, path, mergeCalls, primary,
                   stored, forms, forms_to_generate,
                   fillVars, pdfVars, unitVars>>

\* the except clause of the extraction call without its append: the failed
\* file leaves no entry
extract_except_pass(exts) == exts

\* app.py:543-545: except Exception: all_extractions.append({})
extract_except(exts) == Append(exts, EmptyDict)

\* app.py:543-545: the extraction call raises or answers no JSON
ExtractFail ==
    /\ pc = "extract"
    /\ extractions' = extract_except(extractions)
    /\ pc' = AfterExtract
    /\ UNCHANGED <<files, classifications, reply, path, mergeCalls, primary,
                   stored, forms, forms_to_generate,
                   fillVars, pdfVars, unitVars>>

\* app.py:550-552: more than one extraction, the merge is called
Reconcile ==
    /\ pc = "merge"
    /\ needs_merge(extractions)
    /\ \E r \in Replies(extractions) :
          /\ reply' = r
          /\ primary' = reconcile_extractions(r, extractions)
          /\ path' = IF IsRaised(try_merge(r, extractions)) THEN "fallback"
                     ELSE "merged"
    /\ mergeCalls' = mergeCalls + 1
    /\ pc' = IF IsRaised(primary') THEN "crashed" ELSE "store"
    /\ UNCHANGED <<files, classifications, extractions, stored, forms, forms_to_generate,
                   fillVars, pdfVars, unitVars>>

\* app.py:553-554: a single extraction is the primary record
Single ==
    /\ pc = "merge"
    /\ ~needs_merge(extractions)
    /\ primary' = IF Len(extractions) > 0 THEN extractions[1] ELSE EmptyDict
    /\ path' = "single"
    /\ pc' = "store"
    /\ UNCHANGED <<files, classifications, extractions, reply, mergeCalls, stored,
                   forms, forms_to_generate,
                   fillVars, pdfVars, unitVars>>

\* app.py:556: st.session_state["extraction_result"] = primary
Store ==
    /\ pc = "store"
    /\ stored' = primary
    /\ pc' = "stored"
    /\ UNCHANGED <<files, classifications, extractions, reply, path, mergeCalls,
                   primary, forms, forms_to_generate,
                   fillVars, pdfVars, unitVars>>

\* the forms shown by line 575, where the statements before it did not raise
forms_shown(result, before) ==
    IF metrics_raise(result) THEN before ELSE determine_forms(result)

\* app.py:561-589: section 2, in the run that stored the record
ShowForms ==
    /\ pc = "stored"
    /\ forms' = forms_shown(stored, forms)
    /\ pc' = IF metrics_raise(stored) \/ notes_raise(stored) THEN "show_raised"
             ELSE "shown"
    /\ UNCHANGED <<files, classifications, extractions, reply, path, mergeCalls,
                   primary, stored, forms_to_generate,
                   fillVars, pdfVars, unitVars>>

\* (x.get("acord25") or {}).get("gl", {}), app.py:347, 351
gl_section_of(x) ==
    dict_get(py_or(dict_get(x, "acord25", JNull), EmptyDict), "gl", EmptyDict)

\* the first source from the i-th on with a gl section that has limits, 0 when
\* there is none
RECURSIVE first_with_limits(_, _)
first_with_limits(exts, i) ==
    IF i > Len(exts) THEN 0
    ELSE IF IsDict(gl_section_of(exts[i]))
            /\ Truthy(dict_get(gl_section_of(exts[i]), "limits", JNull))
         THEN i
    ELSE first_with_limits(exts, i + 1)

\* the index of the source whose gl.limits object the backfill pass stored in
\* the merged record (app.py:355-356), 0 when there is none: the merge answer
\* had a gl section without limits, or none
limits_donor(parsed, exts) ==
    IF ~IsDict(gl_section_of(parsed)) THEN 0
    ELSE IF Truthy(dict_get(gl_section_of(parsed), "limits", JNull)) THEN 0
    ELSE first_with_limits(exts, 1)

\* source i with the gl.limits of the edited record, where section 3 got to
\* write them
with_limits_of(exts, i, before, after) ==
    IF i = 0 \/ dict_get(dict_get(before, "acord25", JNull).d["gl"], "limits", JNull)
                  = dict_get(dict_get(after, "acord25", JNull).d["gl"], "limits", JNull)
    THEN exts
    ELSE [exts EXCEPT ![i] =
            dict_set(exts[i], "acord25",
              dict_set(exts[i].d["acord25"], "gl",
                dict_set(exts[i].d["acord25"].d["gl"], "limits",
                         after.d["acord25"].d["gl"].d["limits"])))]

\* all_extractions after section 3 has edited result in place: the record is
\* the first extraction itself when no merge produced it (app.py:426, 554),
\* and shares the gl.limits of a source when the backfill pass took them from
\* it
sources_after_edit(exts, how, parsed, before, after) ==
    IF how \in {"single", "fallback"}
    THEN (IF Len(exts) > 0 THEN [exts EXCEPT ![1] = after] ELSE exts)
    ELSE with_limits_of(exts, limits_donor(parsed, exts), before, after)

\* app.py:591-729: sections 3 and 4 in the run that stored the record; result
\* is the object primary and st.session_state hold, edited in place
EditExtraction ==
    /\ pc = "shown"
    /\ stored' = edit_extraction(stored).r
    /\ primary' = stored'
    /\ extractions' = sources_after_edit(extractions, path,
                          IF path = "merged" THEN json_loads(call_claude(reply))
                          ELSE EmptyDict,
                          stored, stored')
    /\ forms_to_generate' = IF edit_extraction(stored).ok
                            THEN forms_to_generate_of(stored')
                            ELSE forms_to_generate
    /\ pc' = IF edit_extraction(stored).ok THEN "edited" ELSE "edit_raised"
    /\ UNCHANGED <<files, classifications, reply, path, mergeCalls, forms,
                   fillVars, pdfVars, unitVars>>

\* app.py:429-729: a later run of the script, started by a widget, with no
\* button pressed: sections 2 to 4 on the stored record
Rerun ==
    /\ pc \in {"edited", "rerun"}
    /\ forms' = forms_shown(stored, forms)
    /\ stored' = IF metrics_raise(stored) \/ notes_raise(stored) THEN stored
                 ELSE edit_extraction(stored).r
    /\ forms_to_generate' =
           IF metrics_raise(stored) \/ notes_raise(stored)
              \/ ~edit_extraction(stored).ok
           THEN forms_to_generate
           ELSE forms_to_generate_of(stored')
    /\ pc' = IF metrics_raise(stored) \/ notes_raise(stored) THEN "show_raised"
             ELSE IF edit_extraction(stored).ok THEN "rerun"
             ELSE "edit_raised"
    /\ UNCHANGED <<files, classifications, extractions, reply, path, mergeCalls,
                   primary, fillVars, pdfVars, unitVars>>

Next ==
    \/ ClassifyOk
    \/ ClassifyFail
    \/ ExtractOk
    \/ ExtractFail
    \/ Reconcile
    \/ Single
    \/ Store
    \/ ShowForms
    \/ EditExtraction
    \/ Rerun

Spec == Init /\ [][Next]_vars

-----------------------------------------------------------------------------
(* acord_filler.py: main and fill_acord_forms (lines 897-927) *)

\* a liability block that is an empty object, every other block null
BlankDoc ==
    JDict([
      insured |-> JDict([name |-> JStr("Opal LLC"), address |-> JStr("")]),
      carriers |-> EmptyList,
      acord25 |-> EmptyDict,
      acord27 |-> JNull,
      acord28 |-> JNull,
      acord30 |-> JNull])

\* a liability block whose sections hold only empty values, an acord28 and an
\* acord30 block, no insured member
EmptySectionsDoc ==
    JDict([
      carriers |-> EmptyList,
      acord25 |-> JDict([
        certificateNumber |-> JStr(""),
        gl |-> JDict([insurerLetter |-> JStr(""),
                      policyNumber |-> JStr(""),
                      limits |-> JDict([eachOccurrence |-> JNull,
                                        generalAggregate |-> JNull])]),
        auto |-> JDict([policyNumber |-> JStr(""), combinedSingleLimit |-> JNull]),
        endorsements |-> EmptyDict]),
      acord27 |-> JNull,
      acord28 |-> JDict([policyNumber |-> JStr("PR-9")]),
      acord30 |-> JDict([policyNumber |-> JStr("GA-3"),
                         garageLiability |-> JDict([autoOnlyEachAccident |-> JNum(300000)])])])

\* a record whose insured member is null
NoInsuredDoc ==
    JDict([
      insured |-> JNull,
      carriers |-> EmptyList,
      acord25 |-> JDict([auto |-> JDict([policyNumber |-> JStr("CA-5"),
                                         combinedSingleLimit |-> JNum(1000000)])]),
      acord27 |-> JNull,
      acord28 |-> JNull,
      acord30 |-> JNull])

\* the coverage documents handed to the form pipeline
CoverageDocs ==
    {BinderDoc, DecDoc, PropertyDoc, BlankDoc, EmptySectionsDoc, NoInsuredDoc}

FormSet == {"25", "27", "28", "30"}

\* configs[num][1] is empty: ACORD28_FIELDS == {} (acord_filler.py:741, 905-910)
fmap_empty(num) == num = "28"

\* data.get("insured", {}).get("name", "unknown").replace(" ", "_") evaluates:
\* it raises when insured is not a dict or the name is not a string
insured_name_ok(d) ==
    LET n == dict_get(dict_get(d, "insured", EmptyDict), "name", JStr("unknown"))
    IN  ~IsRaised(n) /\ n.k = "str"

\* the forms fill_acord_forms walks, acord_filler.py:899-900
forms_to_fill(d, arg) == IF arg.given THEN arg.list ELSE determine_forms(d)

\* Path(template).exists(), acord_filler.py:913-914
template_exists(num) == num \in FormSet /\ templates[num] /= "missing"

PipeIdle ==
    /\ files = <<>>
    /\ pc = "off"
    /\ classifications = <<>>
    /\ extractions = <<>>
    /\ reply = NoReply
    /\ path = "none"
    /\ mergeCalls = 0
    /\ primary = NoDoc
    /\ stored = NoDoc
    /\ forms_to_generate = <<>>

FillInit ==
    /\ data \in CoverageDocs
    /\ formsArg \in {NoForms, FormsList(<<"27", "25">>)}
    /\ templates \in [FormSet -> {"ok", "missing", "unreadable"}]
    /\ forms = <<>>
    /\ todo = <<>>
    /\ results = <<>>
    /\ fpc = "start"
    /\ PipeIdle
    /\ PdfIdle
    /\ UnitIdle

\* acord_filler.py:898-903: the list of forms, the insured's name
FillStart ==
    /\ fpc = "start"
    /\ insured_name_ok(data)
    /\ forms' = forms_to_fill(data, formsArg)
    /\ todo' = forms'
    /\ fpc' = "loop"
    /\ UNCHANGED <<data, formsArg, templates, results, pipeVars, pdfVars, unitVars>>

\* acord_filler.py:902: the insured's name cannot be read, the call raises
FillStartRaises ==
    /\ fpc = "start"
    /\ ~insured_name_ok(data)
    /\ fpc' = "crashed"
    /\ UNCHANGED <<data, formsArg, templates, todo, results, forms, pipeVars, pdfVars, unitVars>>

\* acord_filler.py:913-916: no template, the form is skipped
FillTemplateMissing ==
    /\ fpc = "loop"
    /\ todo /= <<>>
    /\ ~template_exists(Head(todo))
    /\ todo' = Tail(todo)
    /\ UNCHANGED <<data, formsArg, templates, results, fpc, forms, pipeVars, pdfVars, unitVars>>

\* acord_filler.py:918-921: no field mapping, the form is skipped
FillNotConfigured ==
    /\ fpc = "loop"
    /\ todo /= <<>>
    /\ template_exists(Head(todo))
    /\ fmap_empty(Head(todo))
    /\ todo' = Tail(todo)
    /\ UNCHANGED <<data, formsArg, templates, results, fpc, forms, pipeVars, pdfVars, unitVars>>

\* acord_filler.py:923-925: fill_pdf returns the output path
FillPdf ==
    /\ fpc = "loop"
    /\ todo /= <<>>
    /\ template_exists(Head(todo))
    /\ ~fmap_empty(Head(todo))
    /\ templates[Head(todo)] = "ok"
    /\ results' = Append(results, Head(todo))
    /\ todo' = Tail(todo)
    /\ data' = doc_after_resolve(configs(Head(todo)), data)
    /\ UNCHANGED <<formsArg, templates, fpc, forms, pipeVars, pdfVars, unitVars>>

\* acord_filler.py:797, 925: PdfReader raises on a template it cannot read
FillPdfRaises ==
    /\ fpc = "loop"
    /\ todo /= <<>>
    /\ template_exists(Head(todo))
    /\ ~fmap_empty(Head(todo))
    /\ templates[Head(todo)] = "unreadable"
    /\ fpc' = "crashed"
    /\ UNCHANGED <<data, formsArg, templates, todo, results, forms, pipeVars, pdfVars, unitVars>>

\* acord_filler.py:927: return results
FillReturn ==
    /\ fpc = "loop"
    /\ todo = <<>>
    /\ fpc' = "done"
    /\ UNCHANGED <<data, formsArg, templates, todo, results, forms, pipeVars, pdfVars, unitVars>>

FillNext ==
    \/ FillStart
    \/ FillStartRaises
    \/ FillTemplateMissing
    \/ FillNotConfigured
    \/ FillPdf
    \/ FillPdfRaises
    \/ FillReturn

FillSpec == FillInit /\ [][FillNext]_vars

-----------------------------------------------------------------------------
(* acord_filler.py: fill_pdf (lines 795-877), one call *)

\* general liability only: the acord25 block has no auto, umbrella or
\* workersComp member
GlOnlyDoc ==
    JDict([
      insured |-> JDict([name |-> JStr("Opal LLC"), address |-> JStr("1 Main St")]),
      carriers |-> JList(<<Carrier("A", "Acme Insurance", "")>>),
      acord25 |-> JDict([
        gl |-> JDict([insurerLetter |-> JStr("A"),
                      policyNumber |-> JStr("GL-100"),
                      limits |-> JDict([eachOccurrence |-> JNum(1000000)])])])])

\* general liability only: the other sections of the block are null
GlNullSectionsDoc ==
    JDict([
      insured |-> JDict([name |-> JStr("Opal LLC"), address |-> JStr("1 Main St")]),
      carriers |-> JList(<<Carrier("A", "Acme Insurance", "")>>),
      acord25 |-> JDict([
        gl |-> JDict([insurerLetter |-> JStr("A"),
                      policyNumber |-> JStr("GL-100"),
                      limits |-> JDict([eachOccurrence |-> JNum(1000000)])]),
        auto |-> JNull,
        umbrella |-> JNull,
        workersComp |-> JNull])])

\* the four sections of the liability block, both endorsements set: general
\* liability without an insurer letter, auto with a limit and no policy
\* number, no carrier under the letter A
EndorsedDoc ==
    JDict([
      insured |-> JDict([name |-> JStr("Opal LLC"), address |-> JStr("1 Main St")]),
      carriers |-> JList(<<Carrier("B", "Zenith Mutual", "")>>),
      acord25 |-> JDict([
        gl |-> JDict([insurerLetter |-> JStr(""),
                      policyNumber |-> JStr("GL-100"),
                      limits |-> JDict([eachOccurrence |-> JNum(1000000)])]),
        auto |-> JDict([insurerLetter |-> JStr("B"),
                        combinedSingleLimit |-> JNum(1000000)]),
        umbrella |-> JDict([insurerLetter |-> JStr("B"),
                            policyNumber |-> JStr("UM-7")]),
        workersComp |-> JDict([insurerLetter |-> JStr("b"),
                               policyNumber |-> JStr("WC-1")]),
        endorsements |-> JDict([additionalInsured |-> JBool(TRUE),
                                waiverOfSubrogation |-> JBool(TRUE)])])])

\* a general-liability policy number, the endorsements member null
NullEndorsementsDoc ==
    JDict([
      insured |-> JDict([name |-> JStr("Opal LLC"), address |-> JStr("1 Main St")]),
      carriers |-> JList(<<Carrier("A", "Acme Insurance", "")>>),
      acord25 |-> JDict([
        gl |-> JDict([insurerLetter |-> JStr("A"),
                      policyNumber |-> JStr("GL-100")]),
        endorsements |-> JNull])])

\* general liability excluded: no policy number, no insurer letter, the
\* limits 0 and "Excluded"
ExcludedGlDoc ==
    JDict([
      insured |-> JDict([name |-> JStr("Opal LLC"), address |-> JStr("1 Main St")]),
      carriers |-> JList(<<Carrier("A", "Acme Insurance", "")>>),
      acord25 |-> JDict([
        gl |-> JDict([insurerLetter |-> JStr(""),
                      policyNumber |-> JStr(""),
                      limits |-> JDict([eachOccurrence |-> JNum(0),
                                        generalAggregate |-> JStr("Excluded")])])])])

\* a certificate number that is the number 0
ZeroCertDoc ==
    JDict([
      insured |-> JDict([name |-> JStr("Opal LLC"), address |-> JStr("1 Main St")]),
      carriers |-> JList(<<Carrier("A", "Acme Insurance", "")>>),
      acord25 |-> JDict([
        certificateNumber |-> JNum(0),
        gl |-> JDict([insurerLetter |-> JStr("A"),
                      policyNumber |-> JStr("GL-100")])])])

\* the insured's name is an object with the parts of the name: the resolver
\* of the name field hands out that object of the document; the auto section
\* is null
StructuredNameDoc ==
    JDict([
      insured |-> JDict([name |-> JDict([legal |-> JStr("Opal LLC"),
                                         dba |-> JStr("Opal")]),
                         address |-> JStr("1 Main St")]),
      carriers |-> JList(<<Carrier("A", "Acme Insurance", "")>>),
      acord25 |-> JDict([
        gl |-> JDict([insurerLetter |-> JStr("A"),
                      policyNumber |-> JStr("GL-100")]),
        auto |-> JNull])])

PdfDocs ==
    CoverageDocs \cup {GlOnlyDoc, GlNullSectionsDoc, EndorsedDoc, NullEndorsementsDoc,
                       ExcludedGlDoc, ZeroCertDoc, StructuredNameDoc}

\* a field map of plain values that are all empty
BlankMap ==
    [name \in {"NamedInsured_FullName_A", "GeneralLiability_CoverageIndicator_A"} |->
        Plain(IF name = "NamedInsured_FullName_A" THEN JStr("") ELSE JBool(FALSE))]

\* a field map of plain values: three choices, a name under its short and its
\* qualified name, a name under its qualified name only, a count of 0 under
\* its short name next to a text under its qualified name
ChoiceMap ==
    dict_of(<< <<"Agree", Plain(JStr("yes"))>>,
               <<"Decline", Plain(JStr("N"))>>,
               <<"Name", Plain(JStr("short"))>>,
               <<"F.P1.Name", Plain(JStr("qualified"))>>,
               <<"F.P1.Only", Plain(JStr("only"))>>,
               <<"Count", Plain(JNum(0))>>,
               <<"F.Count", Plain(JStr("none"))>>,
               <<"Confirm", Plain(JBool(TRUE))>> >>)

FieldMaps ==
    {ACORD25_FIELDS, ACORD27_FIELDS, ACORD28_FIELDS, ACORD30_FIELDS, BlankMap, ChoiceMap}

\* a template whose fields carry the short names of ACORD25_FIELDS, the last
\* of them under a named parent
Acord25Template ==
    PdfFile(<<Page(<<Annot("NamedInsured_FullName_A", "/Tx", AP(<<>>), <<>>),
                     Annot("GeneralLiability_EachOccurrence_LimitAmount_A", "/Tx", NoAP, <<>>),
                     Annot("GeneralLiability_CoverageIndicator_A", "/Btn",
                           AP(<<"/Off", "/1">>), <<>>),
                     Annot("Policy_PolicyType_UmbrellaIndicator_A", "", NoAP,
                           <<Node("", "/Btn")>>),
                     Annot("Vehicle_AnyAutoIndicator_A", "/Btn", AP(<<"/Off">>), <<>>),
                     Annot("Signature_A", "/Tx", NoAP, <<>>),
                     Annot("CertificateOfInsurance_CertificateNumberIdentifier_A", "/Tx",
                           NoAP, <<Node("F[0]", "")>>)>>),
              BarePage>>, TRUE, FALSE)

\* a template whose fields hang under F[0] and P1[0], as the keys of
\* ACORD30_FIELDS expect
Acord30Template ==
    PdfFile(<<Page(<<Annot("NamedInsured_FullName_A[0]", "/Tx", NoAP,
                           <<Node("P1[0]", ""), Node("F[0]", "")>>),
                     Annot("Form_CompletionDate_A[0]", "/Tx", AP(<<>>),
                           <<Node("P1[0]", ""), Node("F[0]", "")>>),
                     Annot("GeneralLiability_CoverageIndicator_A[0]", "", AP(<<"/On", "/Off">>),
                           <<Node("P1[0]", "/Btn"), Node("F[0]", "")>>)>>)>>,
            TRUE, FALSE)

\* a template whose widgets have no /T of their own: the field is the parent
WidgetTemplate ==
    PdfFile(<<Page(<<Annot("", "", AP(<<>>), <<Node("NamedInsured_FullName_A", "/Tx")>>),
                     Annot("", "", NoAP, <<Node("Form_CompletionDate_A", "/Tx")>>)>>)>>,
            FALSE, FALSE)

\* a template for ChoiceMap: three check boxes, text fields under F and P1, one
\* ancestor without a name, a field no key names
ChoiceTemplate ==
    PdfFile(<<Page(<<Annot("Agree", "", AP(<<"/Off", "/On", "/2">>), <<Node("F", "/Btn")>>),
                     Annot("Decline", "/Btn", AP(<<"/Off", "/On">>), <<>>),
                     Annot("Name", "/Tx", NoAP, <<Node("P1", ""), Node("F", "")>>),
                     Annot("Only", "/Tx", AP(<<>>),
                           <<Node("P1", ""), Node("", ""), Node("F", "")>>),
                     Annot("Count", "/Tx", NoAP, <<Node("F", "")>>),
                     Annot("Other", "/Tx", NoAP, <<>>),
                     Annot("Confirm", "/Btn", AP(<<"/Off">>), <<>>)>>)>>,
            TRUE, FALSE)

Templates == {Acord25Template, Acord30Template, WidgetTemplate, ChoiceTemplate, Garbage}

PdfInit ==
    /\ data \in PdfDocs
    /\ field_map \in FieldMaps
    /\ pdf \in Templates
    /\ outfile \in {NoFile, EmptyFile}
    /\ fill_values = <<>>
    /\ warnings = {}
    /\ written = <<>>
    /\ matched_fields = {}
    /\ unmatched = {}
    /\ ppc = "start"
    /\ forms = <<>>
    /\ FormsIdle
    /\ PipeIdle
    /\ UnitIdle

\* acord_filler.py:797-799: the reader opens the template, the writer clones it
PdfOpen ==
    /\ ppc = "start"
    /\ pdf.k = "pdf"
    /\ written' = pdf.pages
    /\ ppc' = "opened"
    /\ UNCHANGED <<data, field_map, pdf, fill_values, warnings, matched_fields,
                   unmatched, outfile, forms, formsArg, templates, todo, results, fpc,
                   pipeVars, unitVars>>

\* acord_filler.py:797: PdfReader raises on a file that is not a PDF
PdfOpenRaises ==
    /\ ppc = "start"
    /\ pdf.k /= "pdf"
    /\ ppc' = "crashed"
    /\ UNCHANGED <<data, field_map, pdf, fill_values, warnings, written, matched_fields,
                   unmatched, outfile, forms, formsArg, templates, todo, results, fpc,
                   pipeVars, unitVars>>

\* acord_filler.py:802-812: every resolver is called, a raising one is reported
PdfResolveTo(vals) ==
    IF IsRaised(vals)
    THEN /\ ppc' = "crashed"
         /\ UNCHANGED <<fill_values, warnings>>
    ELSE /\ ppc' = "resolved"
         /\ fill_values' = vals.of
         /\ warnings' = resolve_errors(field_map, data)

PdfResolve ==
    /\ ppc = "opened"
    /\ PdfResolveTo(resolve_values(field_map, data))
    /\ data' = doc_after_resolve(field_map, data)
    /\ UNCHANGED <<field_map, pdf, written, matched_fields, unmatched, outfile, forms,
                   formsArg, templates, todo, results, fpc, pipeVars, unitVars>>

\* acord_filler.py:814-816: nothing to fill, fill_pdf returns output_path
PdfNoValues ==
    /\ ppc = "resolved"
    /\ DOMAIN fill_values = {}
    /\ ppc' = "returned"
    /\ UNCHANGED <<data, field_map, pdf, fill_values, warnings, written, matched_fields,
                   unmatched, outfile, forms, formsArg, templates, todo, results, fpc,
                   pipeVars, unitVars>>

\* acord_filler.py:818-877: the walk over the annotations, the write, the report
PdfWalk ==
    /\ ppc = "resolved"
    /\ DOMAIN fill_values /= {}
    /\ written' = fill_pages(written, fill_values)
    /\ matched_fields' = fill_matched(written, fill_values)
    /\ outfile' = written_file(pdf, written')
    /\ unmatched' = DOMAIN fill_values \ matched_fields'
    /\ data' = doc_after_walk(field_map, written, data)
    /\ ppc' = "returned"
    /\ UNCHANGED <<field_map, pdf, fill_values, warnings, forms, formsArg,
                   templates, todo, results, fpc, pipeVars, unitVars>>

PdfNext ==
    \/ PdfOpen
    \/ PdfOpenRaises
    \/ PdfResolve
    \/ PdfNoValues
    \/ PdfWalk

PdfSpec == PdfInit /\ [][PdfNext]_vars

-----------------------------------------------------------------------------
(* Properties of the reconciliation merge (Spec) *)

\* the paths of the leaves of x that hold a non-empty value: not null, "", 0,
\* false; the entries of lists are not leaves
RECURSIVE NonEmptyLeaves(_)
NonEmptyLeaves(x) ==
    IF IsDict(x)
    THEN UNION {{<<f>> \o q : q \in NonEmptyLeaves(x.d[f])} : f \in DOMAIN x.d}
    ELSE IF x.k \in {"str", "num", "bool"} /\ Truthy(x) THEN {<<>>}
    ELSE {}

\* every leaf some source extraction fills is filled in the record
Monotone(record, exts) ==
    \A i \in 1..Len(exts) : NonEmptyLeaves(exts[i]) \subseteq NonEmptyLeaves(record)

\* reconcile_extractions has returned
\* the positions of a run between the end of the extraction loop's merge and
\* section 3, which edits the record in place
BeforeEdit == {"store", "stored", "shown", "show_raised"}

Returned == pc \in BeforeEdit /\ mergeCalls > 0

\* the merge call answered a JSON object
\* what json.loads read from the merge call's answer, Raised when there is none
Parsed == IF reply.kind = "answer" THEN json_loads(call_claude(reply)) ELSE Raised

AnsweredObject == ~IsRaised(Parsed) /\ IsDict(Parsed)

\* C1: merge monotonicity. When two or more extractions were reconciled, the
\* merge call answered an object and the backfill pass ran on it, every leaf
\* field with a non-empty value in some source extraction has a non-empty
\* value in the returned record, leaves below gl.limits and leaves of acord25
\* outside its four coverage sections included.
C1_MergeMonotone ==
    (Returned /\ path = "merged") => Monotone(primary, extractions)

\* C2: when the merge step failed, the returned record is the first source
\* extraction with the backfill pass applied: every field that another source
\* fills is filled in it.
C2_FallbackBackfilled ==
    (Returned /\ path = "fallback") =>
        /\ NonEmptyLeaves(extractions[1]) \subseteq NonEmptyLeaves(primary)
        /\ Monotone(primary, extractions)

\* the merge step failed: the call raised, its answer was no JSON, or the
\* backfill pass raised on the parsed answer
MergeFailed ==
    \/ reply.kind = "error"
    \/ /\ reply.kind = "answer"
       /\ \/ IsRaised(Parsed)
          \/ IsRaised(_preserve_fields(Parsed, extractions))

\* C3: a failure of the merge step never leaves reconcile_extractions: the
\* call does not raise, the record returned after a failure (the call raised, the
\* answer was no JSON, the backfill raised) is the first source extraction,
\* and the same failure on an empty list of extractions gives the empty
\* record.
C3_FailureContained ==
    /\ pc /= "crashed"
    /\ (pc \in BeforeEdit /\ mergeCalls > 0 /\ MergeFailed) =>
           /\ path = "fallback"
           /\ primary = extractions[1]
           /\ IsRaised(try_merge(reply, <<>>)) =>
                  reconcile_extractions(reply, <<>>) = EmptyDict

\* C3 witness: the merge answered an object on which the backfill pass raised,
\* and the first source extraction, a binder that is not the answer, was stored
C3_Witness ==
    /\ pc = "stored"
    /\ AnsweredObject
    /\ IsRaised(_preserve_fields(reply.text.body, extractions))
    /\ extractions[1] = BinderDoc
    /\ stored = BinderDoc
    /\ reply.text.body /= BinderDoc

\* the form blocks of a record that are objects
BlockKeys == {"acord25", "acord27", "acord28", "acord30"}
Blocks(record) ==
    {dict_get(record, b, JNull) :
        b \in {c \in BlockKeys : IsDict(dict_get(record, c, JNull))}}

\* the coverage sections of a record: its form blocks and their object members
Sections(record) ==
    Blocks(record) \cup
    UNION {{blk.d[f] : f \in {g \in DOMAIN blk.d : IsDict(blk.d[g])}} :
             blk \in Blocks(record)}

\* the non-empty insurer letters of the coverage sections of a record
InsurerLetters(record) ==
    {dict_get(sec, "insurerLetter", JNull) :
        sec \in {t \in Sections(record) :
                    Truthy(dict_get(t, "insurerLetter", JNull))}}

\* the carriers list of a record, empty when it has none
CarriersOf(record) ==
    LET cs == dict_get(record, "carriers", EmptyList)
    IN  IF cs.k = "list" THEN cs.l ELSE <<>>

CarrierLetters(record) ==
    {dict_get(CarriersOf(record)[j], "letter", JNull) :
        j \in {i \in 1..Len(CarriersOf(record)) : IsDict(CarriersOf(record)[i])}}

\* C4: letter consistency after merge. Every non-empty insurerLetter of a
\* coverage section of the returned record is the letter of an entry of the
\* record's carriers list.
C4_LettersHaveCarriers ==
    (Returned /\ path = "merged") =>
        InsurerLetters(primary) \subseteq CarrierLetters(primary)

\* C5: with exactly one extraction the record handed on is that extraction,
\* unchanged, and the merge step was not invoked.
C5_SingleUnchanged ==
    (Len(files) = 1 /\ pc \in BeforeEdit) =>
        /\ primary = extractions[1]
        /\ pc \in {"stored", "shown", "show_raised"} => stored = extractions[1]
        /\ mergeCalls = 0
        /\ reply = NoReply

\* C5 witness: one file was uploaded, its extraction succeeded and was stored
C5_Witness ==
    /\ Len(files) = 1
    /\ pc = "stored"
    /\ path = "single"
    /\ stored = ExtractionOf(files[1])

\* the block is null or missing
BlockAbsent(record, b) == IsDict(record) /\ IsNone(dict_get(record, b, JNull))

InSeq(x, q) == \E i \in 1..Len(q) : q[i] = x

\* C6: a block that no source has stays absent. When two or more sources were
\* reconciled, every source has the block of form 27, 28 or 30 null or
\* missing and the merge answer has it null, the returned record has it null
\* or missing and determine_forms does not list the form.
C6_AbsentBlockStaysAbsent ==
    \A num \in {"27", "28", "30"} :
        ( /\ pc = "shown"
          /\ mergeCalls > 0
          /\ Len(extractions) >= 2
          /\ AnsweredObject
          /\ BlockAbsent(reply.text.body, FormKey(num))
          /\ \A i \in 1..Len(extractions) : BlockAbsent(extractions[i], FormKey(num)) )
        => /\ BlockAbsent(stored, FormKey(num))
           /\ ~InSeq(num, forms)

\* the endorsement flags of a form block that are set
EndorsementsSet(record, b) ==
    LET blk == dict_get(record, b, JNull)
        e == IF IsDict(blk) THEN dict_get(blk, "endorsements", EmptyDict) ELSE EmptyDict
    IN  IF IsDict(e) THEN {f \in DOMAIN e.d : Truthy(e.d[f])} ELSE {}

\* C7: endorsement union. In the returned record every endorsement flag of
\* every form block is the OR of that flag over the source extractions.
C7_EndorsementUnion ==
    (Returned /\ path = "merged") =>
        \A b \in BlockKeys :
            EndorsementsSet(primary, b) =
                UNION {EndorsementsSet(extractions[i], b) : i \in 1..Len(extractions)}

\* a carrier name with letter case and whitespace removed, over the spellings
\* the model's documents use
NormName(name) ==
    CASE name = "Acme Insurance" -> "acmeinsurance"
      [] name = "acme insurance " -> "acmeinsurance"
      [] name = "Zenith Mutual" -> "zenithmutual"
      [] OTHER -> name

\* the normalised non-empty names of a carriers list, in order
RECURSIVE NamesOf(_)
NamesOf(cs) ==
    IF cs = <<>> THEN <<>>
    ELSE LET n == dict_get(Head(cs), "name", JStr(""))
         IN  IF n.k = "str" /\ n.s /= ""
             THEN <<NormName(n.s)>> \o NamesOf(Tail(cs))
             ELSE NamesOf(Tail(cs))

\* a sequence without its repeated elements, first occurrences kept
RECURSIVE Distinct(_, _)
Distinct(q, seen) ==
    IF q = <<>> THEN <<>>
    ELSE IF Head(q) \in seen THEN Distinct(Tail(q), seen)
    ELSE <<Head(q)>> \o Distinct(Tail(q), seen \cup {Head(q)})

\* the carrier names of all extractions, in first-seen order
RECURSIVE AllNames(_)
AllNames(exts) ==
    IF exts = <<>> THEN <<>>
    ELSE NamesOf(CarriersOf(Head(exts))) \o AllNames(Tail(exts))

LetterAt(i) ==
    CASE i = 1 -> "A" [] i = 2 -> "B" [] i = 3 -> "C"
      [] i = 4 -> "D" [] i = 5 -> "E" [] OTHER -> "F"

\* C8: carrier union. The carriers list of the returned record has exactly
\* one entry per distinct carrier name of the sources, names compared without
\* case and whitespace, lettered A, B, C, ... in first-seen order.
C8_CarrierUnion ==
    (Returned /\ path = "merged") =>
        LET want == Distinct(AllNames(extractions), {})
            got == CarriersOf(primary)
        IN  /\ NamesOf(got) = want
            /\ Len(got) = Len(want)
            /\ \A i \in 1..Len(got) :
                   dict_get(got[i], "letter", JNull) = JStr(LetterAt(i))

-----------------------------------------------------------------------------
(* Properties of the form pipeline (FillSpec) *)

\* a presence predicate of the liability block holds
LiabilityPresent(d) ==
    \/ GeneralLiability_CoverageIndicator_A(d) = JBool(TRUE)
    \/ _has_auto(d) = JBool(TRUE)
    \/ _has_umbrella(d) = JBool(TRUE)
    \/ _has_wc(d) = JBool(TRUE)

\* C9: presence inference is consistent. The decision of determine_forms that
\* ACORD 25 applies equals the presence predicate behind the general-liability
\* coverage indicator (_has_gl and its siblings), also for a document whose
\* acord25 block is an empty object or has only empty sections.
C9_PresenceConsistent ==
    (fpc \in {"loop", "done"} /\ ~formsArg.given) =>
        (InSeq("25", forms) <=> LiabilityPresent(data))

AllTemplatesOk == \A num \in FormSet : templates[num] = "ok"

\* C10: form applicability. With no form override and every template
\* available, fill_acord_forms produces an output for exactly the forms
\* 25, 27, 28, 30 whose block key is present and not null.
C10_OutputsAreApplicableForms ==
    (fpc = "done" /\ ~formsArg.given /\ AllTemplatesOk) =>
        Range(results) = {num \in FormSet : block_not_none(data, num) = JBool(TRUE)}

-----------------------------------------------------------------------------
(* Calls of the formatters _fm and _parse_address on their own *)

\* Largest number of comma-separated segments of an address that is drawn.
MaxSegments == 4

\* the segments the drawn addresses are made of
Segments ==
    {"123 Main St", " Suite 4", "Springfield", "IL 62704", "New York 10001",
     "62704", ""}

\* the addresses of exactly n segments
RECURSIVE AddressTexts(_)
AddressTexts(n) ==
    IF n = 1 THEN Segments
    ELSE {a \o "," \o sgm : a \in AddressTexts(n - 1), sgm \in Segments}

\* what a resolver may hand to _parse_address: address strings, and the values
\* a document holds in place of one
AddressInputs ==
    {JStr(a) : a \in UNION {AddressTexts(n) : n \in 1..MaxSegments}}
        \cup {JNull, JNum(0), JNum(5), EmptyDict, EmptyList, JBool(TRUE),
              JStr("1 Main St\nSpringfield, IL 62704"),
              JStr("1 Main St, Springfield, IL" \o chr(11) \o "62704"),
              JStr(chr(11) \o "1 Main St, Springfield" \o chr(28) \o ", IL 62704")}

\* what a resolver may hand to _fm: the values a limit holds in a document
FmTexts ==
    {"", "Excluded", "excluded", "EXCLUDED", "eXcLuDeD", "Excl", "EXCL", "excl",
     "N/A", "n/a", "N/a", " Excluded", "Included", "See policy", "GL-100",
     "$1,000", "1,000", "ten", "0", "0.0", "-0", "000", "1000", " 12 ",
     "1000000", "1500.5", "+7", "1.", ".5", ".", "-", "1.2.3", "12a",
     "0.004", "99.999", "0.005", "2.675", "0.125", "1.005", "-0.375",
     "inf", "-inf", "Infinity", "INF", "nan", "NaN",
     "1e3", "1E-2", "0e0", "1e", "1_000", "1__0", chr(11) \o "12", "7" \o chr(160),
     chr(28) \o "12", "it's"}

FmNumbers ==
    {JNum(n) : n \in {0, 1, 10, 999, 1000, 5000, 100020, 1000000, 1234567,
                      -5000}}
        \cup {JReal(FALSE, 15005, 10), JReal(TRUE, 15005, 10), JReal(FALSE, 0, 1),
              JReal(TRUE, 0, 1), JReal(FALSE, 1000, 1), JReal(FALSE, 25, 100),
              JReal(FALSE, 1, 1000), JReal(FALSE, 1234567, 1000),
              JReal(FALSE, 2675, 1000), JReal(TRUE, 2675, 1000),
              JReal(FALSE, 5, 1000), JReal(FALSE, 125, 1000),
              JReal(FALSE, 375, 1000), JReal(FALSE, 10050, 10000),
              JInf(FALSE), JInf(TRUE), JNaN, JBool(TRUE), JBool(FALSE)}

FmInputs ==
    {JNull, EmptyList, EmptyDict, JList(<<JNum(1)>>),
     JDict([a |-> JNum(1)]),
     JItems(<< <<"limit", JNum(1)>>, <<"basis", JReal(FALSE, 1, 100000)>> >>)}
        \cup {JStr(t) : t \in FmTexts} \cup FmNumbers

UnitInit ==
    /\ \/ upc = "_fm" /\ unit_arg \in FmInputs
       \/ upc = "_parse_address" /\ unit_arg \in AddressInputs
    /\ unit_out = NoDoc
    /\ forms = <<>>
    /\ PipeIdle
    /\ FillIdle
    /\ PdfIdle

\* a call _fm(unit_arg) returns or raises
CallFm ==
    /\ upc = "_fm"
    /\ unit_out' = _fm(unit_arg)
    /\ upc' = IF IsRaised(unit_out') THEN "_fm.raised" ELSE "_fm.returned"
    /\ UNCHANGED <<unit_arg, forms, pipeVars, fillVars, pdfVars>>

\* a call _parse_address(unit_arg) returns or raises
CallParseAddress ==
    /\ upc = "_parse_address"
    /\ unit_out' = _parse_address(unit_arg)
    /\ upc' = IF IsRaised(unit_out') THEN "_parse_address.raised"
              ELSE "_parse_address.returned"
    /\ UNCHANGED <<unit_arg, forms, pipeVars, fillVars, pdfVars>>

UnitNext ==
    \/ CallFm
    \/ CallParseAddress

UnitSpec == UnitInit /\ [][UnitNext]_vars

-----------------------------------------------------------------------------
(* Properties of the formatters (UnitSpec) *)

\* the call of _fm is over
FmDone == upc \in {"_fm.returned", "_fm.raised"}

\* the number a value denotes: a JSON number, or a text that float() reads
NumericOf(v) ==
    IF v.k \in {"num", "real", "inf", "nan"} THEN py_float(v)
    ELSE IF v.k = "str" THEN float_of_text(v.s)
    ELSE ValueError

IsExclusionText(v) ==
    v.k = "str" /\ str_lower(v.s) \in {"excluded", "excl", "n/a"}

Abs(i) == IF i < 0 THEN -i ELSE i

\* the text r shows the finite amount n: its sign, its whole part in groups of
\* three digits separated by commas, and, when n is not a whole number, a
\* point and the two digits of the hundredth nearest to the float. Where the
\* decimal n lies half way between two hundredths, the float (the binary
\* double nearest to n) lies above it, below it or on it, and the text shows
\* the upper hundredth, the lower one or the even one.
ShowsAmount(r, n) ==
    LET neg == r /= "" /\ Head(r) = "-"
        unsigned == IF neg THEN Tail(r) ELSE r
        parts == str_split(unsigned, ".", "")
        groups == str_split(parts[1], ",", "")
        whole == digits_value(str_join("", groups), 0)
        shown == 100 * whole + digits_value(parts[2], 0)
        off == shown * n.den - 100 * n.num
        side == float_side(n.num, n.den)
    IN  /\ neg = n.neg
        /\ \A i \in 1..Len(groups) :
              /\ all_digits(groups[i])
              /\ IF i = 1 THEN Len(groups[i]) \in 1..3 ELSE Len(groups[i]) = 3
        /\ Len(groups) > 1 => Head(groups[1]) /= "0"
        /\ IF n.num % n.den = 0
           THEN Len(parts) = 1 /\ whole = n.num \div n.den
           ELSE /\ Len(parts) = 2
                /\ Len(parts[2]) = 2
                /\ all_digits(parts[2])
                /\ 2 * Abs(off) <= n.den
                /\ 2 * Abs(off) = n.den =>
                      IF side > 0 THEN off > 0
                      ELSE IF side < 0 THEN off < 0
                      ELSE shown % 2 = 0

\* C17: currency formatter classification. For every input _fm returns "" for
\* an absent or empty value, "Excluded" for the literals Excluded, Excl, N/A
\* in any letter case, "Excluded" for a value that is numerically zero, the
\* amount with thousands separators for a non-zero number (finite or
\* infinite), and a text that is not a number unchanged.
C17_FormatterClasses ==
    FmDone =>
        LET v == unit_arg
            n == NumericOf(v)
        IN  /\ (v = JNull \/ v = JStr("")) => unit_out = JStr("")
            /\ IsExclusionText(v) => unit_out = JStr("Excluded")
            /\ (n.k = "real" /\ n.num = 0) => unit_out = JStr("Excluded")
            /\ (n.k = "inf" \/ (n.k = "real" /\ n.num /= 0)) =>
                   /\ unit_out.k = "str"
                   /\ n.k = "real" => ShowsAmount(unit_out.s, n)
            /\ (v.k = "str" /\ v.s /= "" /\ n = ValueError /\ ~IsExclusionText(v)) =>
                   unit_out = v

\* C18: the currency formatter never raises: for every input value _fm
\* returns a string, and for a malformed input that string is the input's text.
C18_FormatterNeverRaises ==
    FmDone =>
        /\ upc = "_fm.returned"
        /\ unit_out.k = "str"
        /\ (~IsNone(unit_arg) /\ NumericOf(unit_arg) = ValueError
               /\ ~IsExclusionText(unit_arg)) => unit_out = py_str(unit_arg)

\* the call of _parse_address is over
ParseDone == upc \in {"_parse_address.returned", "_parse_address.raised"}

\* C19: address decomposition with three or more comma-separated segments:
\* line 1 is the first segment, the city the second-to-last, line 2 the
\* segments between them joined with commas, and when the final segment has
\* at least two tokens and its last token is numeric or at least 5 characters
\* long, the postal code is the last token and the state the second-to-last
\* token of the final segment.
C19_AddressThreeSegments ==
    (ParseDone /\ unit_arg.k = "str" /\ ~str_contains("\n", unit_arg.s)) =>
        LET segs == strip_all(str_split(unit_arg.s, ",", ""))
            n == Len(segs)
            last == str_tokens(segs[n], "")
            m == Len(last)
        IN  n >= 3 =>
              /\ upc = "_parse_address.returned"
              /\ unit_out.line1 = segs[1]
              /\ unit_out.city = segs[n - 1]
              /\ unit_out.line2 = str_join(", ", SubSeq(segs, 2, n - 2))
              /\ (m >= 2 /\ (str_isdigit(last[m]) \/ Len(last[m]) >= 5)) =>
                     /\ unit_out.zip = last[m]
                     /\ unit_out.state = last[m - 1]

-----------------------------------------------------------------------------
(* Properties of fill_pdf and of the field tables (PdfSpec) *)

\* the automobile liability entries of ACORD25_FIELDS
AutoEntries ==
    {"Vehicle_InsurerLetterCode_A",
     "Policy_AutomobileLiability_PolicyNumberIdentifier_A",
     "Policy_AutomobileLiability_EffectiveDate_A",
     "Policy_AutomobileLiability_ExpirationDate_A",
     "Vehicle_AnyAutoIndicator_A",
     "Vehicle_AllOwnedAutosIndicator_A",
     "Vehicle_ScheduledAutosIndicator_A",
     "Vehicle_HiredAutosIndicator_A",
     "Vehicle_NonOwnedAutosIndicator_A",
     "Vehicle_OtherCoveredAutoIndicator_A",
     "Vehicle_OtherCoveredAutoIndicator_B",
     "Vehicle_OtherCoveredAutoDescription_A",
     "Vehicle_OtherCoveredAutoDescription_B",
     "Vehicle_CombinedSingleLimit_EachAccidentAmount_A",
     "Vehicle_BodilyInjury_PerPersonLimitAmount_A",
     "Vehicle_BodilyInjury_PerAccidentLimitAmount_A",
     "Vehicle_PropertyDamage_PerAccidentLimitAmount_A",
     "Vehicle_OtherCoverage_CoverageDescription_A",
     "Vehicle_OtherCoverage_LimitAmount_A",
     "CertificateOfInsurance_AutomobileLiability_AdditionalInsuredCode_A",
     "Policy_AutomobileLiability_SubrogationWaivedCode_A"}

\* the umbrella and excess liability entries of ACORD25_FIELDS
UmbrellaEntries ==
    {"ExcessUmbrella_InsurerLetterCode_A",
     "Policy_ExcessLiability_PolicyNumberIdentifier_A",
     "Policy_ExcessLiability_EffectiveDate_A",
     "Policy_ExcessLiability_ExpirationDate_A",
     "Policy_PolicyType_UmbrellaIndicator_A",
     "Policy_PolicyType_ExcessIndicator_A",
     "ExcessUmbrella_OccurrenceIndicator_A",
     "ExcessUmbrella_ClaimsMadeIndicator_A",
     "ExcessUmbrella_DeductibleIndicator_A",
     "ExcessUmbrella_RetentionIndicator_A",
     "ExcessUmbrella_Umbrella_EachOccurrenceAmount_A",
     "ExcessUmbrella_Umbrella_AggregateAmount_A",
     "ExcessUmbrella_Umbrella_DeductibleOrRetentionAmount_A",
     "ExcessUmbrella_OtherCoverageDescription_A",
     "ExcessUmbrella_OtherCoverageLimitAmount_A",
     "CertificateOfInsurance_ExcessLiability_AdditionalInsuredCode_A",
     "Policy_ExcessLiability_SubrogationWaivedCode_A"}

\* the workers compensation entries of ACORD25_FIELDS
WorkersCompEntries ==
    {"WorkersCompensationEmployersLiability_InsurerLetterCode_A",
     "Policy_WorkersCompensationAndEmployersLiability_PolicyNumberIdentifier_A",
     "Policy_WorkersCompensationAndEmployersLiability_EffectiveDate_A",
     "Policy_WorkersCompensationAndEmployersLiability_ExpirationDate_A",
     "WorkersCompensationEmployersLiability_WorkersCompensationStatutoryLimitIndicator_A",
     "WorkersCompensationEmployersLiability_OtherCoverageIndicator_A",
     "WorkersCompensationEmployersLiability_OtherCoverageDescription_A",
     "WorkersCompensationEmployersLiability_AnyPersonsExcludedIndicator_A",
     "WorkersCompensationEmployersLiability_EmployersLiability_EachAccidentLimitAmount_A",
     "WorkersCompensationEmployersLiability_EmployersLiability_DiseaseEachEmployeeLimitAmount_A",
     "WorkersCompensationEmployersLiability_EmployersLiability_DiseasePolicyLimitAmount_A",
     "Policy_WorkersCompensation_SubrogationWaivedCode_A"}

\* the section is missing from the block, or null
NoSection(block, section) ==
    section \notin DOMAIN block.d \/ IsNone(block.d[section])

\* a general-liability section with a policy number and an each-occurrence
\* limit of 1000000, and no auto, umbrella or workers-compensation section
GlOnly(d) ==
    /\ "acord25" \in DOMAIN d.d
    /\ IsDict(d.d.acord25)
    /\ "gl" \in DOMAIN d.d.acord25.d
    /\ IsDict(d.d.acord25.d.gl)
    /\ Truthy(_gl(d, "policyNumber"))
    /\ dict_get(dict_get(d.d.acord25.d.gl, "limits", EmptyDict), "eachOccurrence", JNull)
           = JNum(1000000)
    /\ \A section \in {"auto", "umbrella", "workersComp"} : NoSection(d.d.acord25, section)

\* fill_pdf has resolved the field map
Resolved == ppc \in {"resolved", "returned"}

\* C11: for a document with general liability only, resolving ACORD25_FIELDS
\* leaves every auto, umbrella/excess and workers-compensation entry out of
\* the values to write, the form is listed by determine_forms, and the
\* each-occurrence field is "1,000,000"
C11_GlOnlyLeavesOtherSectionsEmpty ==
    (Resolved /\ DOMAIN field_map = ACORD25_KEYS /\ GlOnly(data)) =>
        /\ \A name \in AutoEntries \cup UmbrellaEntries \cup WorkersCompEntries :
               name \notin DOMAIN fill_values
        /\ "25" \in Range(determine_forms(data))
        /\ value_get(fill_values, "GeneralLiability_EachOccurrence_LimitAmount_A")
               = JStr("1,000,000")

\* the positions <<page, annotation>> of the template's annotations
AnnotsOf(pages) ==
    UNION {{<<p, a>> : a \in DOMAIN pages[p].annots} :
           p \in {q \in DOMAIN pages : pages[q].has}}

\* what a field named by a resolved, non-empty value must show in the output:
\* the text of the value, or the on state of a checkbox whose value is true
Shows(out, annot, val) ==
    IF _get_field_type(annot) = "/Btn"
    THEN val = JBool(TRUE) => out.V = NameObject(_discover_checkbox_on_state(annot))
    ELSE out.V = TextStringObject(py_str(val).s)

\* C12: a resolver that raises is reported, contributes no value and does not
\* stop fill_pdf; every other resolver is evaluated, its non-empty value is
\* kept, and it is written to each template field that carries its name
C12_RaisingResolverIsLocal ==
    /\ ppc = "crashed" => pdf.k /= "pdf"
    /\ Resolved =>
          \A name \in DOMAIN field_map :
              LET val == call_resolver(field_map[name], data)
              IN  /\ IsRaised(val) => name \in warnings /\ name \notin DOMAIN fill_values
                  /\ (~IsRaised(val) /\ ~skipped(val)) =>
                        name \in DOMAIN fill_values /\ fill_values[name] = val
    /\ (ppc = "returned" /\ DOMAIN fill_values /= {}) =>
          /\ outfile.k = "pdf"
          /\ \A pa \in AnnotsOf(pdf.pages) :
                LET annot == pdf.pages[pa[1]].annots[pa[2]]
                    val == IF annot.T \in DOMAIN field_map
                           THEN call_resolver(field_map[annot.T], data) ELSE Raised
                IN  (~IsRaised(val) /\ Truthy(val)) =>
                        Shows(outfile.pages[pa[1]].annots[pa[2]], annot, val)

\* a resolver raised, and the insured's name and the each-occurrence limit
\* are in the output all the same
C12_Witness ==
    /\ ppc = "returned"
    /\ data = GlNullSectionsDoc
    /\ "Policy_PolicyType_UmbrellaIndicator_A" \in warnings
    /\ pdf = Acord25Template
    /\ outfile.k = "pdf"
    /\ outfile.pages[1].annots[1].V = TextStringObject("Opal LLC")
    /\ outfile.pages[1].annots[2].V = TextStringObject("1,000,000")
    /\ outfile.pages[1].annots[3].V = NameObject("/1")

\* the member is missing, null or an object
Tolerable(x, member) ==
    member \in DOMAIN x.d => x.d[member].k \in {"null", "dict"}

\* the members of x named in members, where they are objects
ObjectsAt(x, members) ==
    {x.d[member] : member \in {f \in members \cap DOMAIN x.d : IsDict(x.d[f])}}

\* a coverage document in which nothing has the wrong type: every block and
\* every sub-section is an object, null or missing, and the carriers are a
\* list of objects with textual letters
MissingPathsOnly(d) ==
    /\ IsDict(d)
    /\ \A top \in {"insured", "producer", "certificateHolder",
                   "acord25", "acord27", "acord28", "acord30"} : Tolerable(d, top)
    /\ \A block \in ObjectsAt(d, {"acord25", "acord27", "acord28", "acord30"}) :
          /\ \A section \in {"gl", "auto", "umbrella", "workersComp", "endorsements",
                             "certificateHolder", "coverages", "mortgageholder",
                             "garageLiability", "garageKeepers", "commercialGL"} :
                Tolerable(block, section)
          /\ \A gl \in ObjectsAt(block, {"gl"}) : Tolerable(gl, "limits")
    /\ "carriers" \in DOMAIN d.d =>
          /\ d.d.carriers.k = "list"
          /\ \A i \in DOMAIN d.d.carriers.l :
                /\ IsDict(d.d.carriers.l[i])
                /\ \A f \in DOMAIN d.d.carriers.l[i].d : d.d.carriers.l[i].d[f].k = "str"

\* the field map is one of the three tables
IsTable == DOMAIN field_map \in {ACORD25_KEYS, ACORD27_KEYS, ACORD30_KEYS}

\* C13: on a document whose only defects are missing or null blocks and
\* sub-sections, no resolver of ACORD25_FIELDS, ACORD27_FIELDS or
\* ACORD30_FIELDS raises
C13_ResolversTolerateMissingPaths ==
    (Resolved /\ IsTable /\ MissingPathsOnly(data)) => warnings = {}

\* the key under which the walk found the value of the annotation: the short
\* name when it has a truthy value, the qualified name otherwise
KeyUsed(annot, fv) ==
    IF Truthy(value_get(fv, annot.T)) THEN annot.T ELSE _get_qualified_name(annot)

\* a field of the template was filled with the value of this key
MatchedTo(key) ==
    \E pa \in AnnotsOf(pdf.pages) :
        LET annot == pdf.pages[pa[1]].annots[pa[2]]
        IN  is_filled(annot, fill_values) /\ KeyUsed(annot, fill_values) = key

\* fill_pdf has walked the template and written the output
Walked == ppc = "returned" /\ DOMAIN fill_values /= {}

\* C14: after the walk a resolved key is reported unmatched exactly when no
\* field of the template was filled with its value
C14_UnmatchedExact ==
    Walked => \A key \in DOMAIN fill_values : key \in unmatched <=> ~MatchedTo(key)

\* C15: when no resolver yields a value to write, fill_pdf returns and the
\* file at output_path is the template, unmodified
C15_EmptySetReturnsTemplate ==
    /\ pdf.k = "pdf" => ppc /= "crashed"
    /\ (ppc = "returned" /\ DOMAIN fill_values = {}) => outfile = pdf

-----------------------------------------------------------------------------
(* Properties of fill_acord_forms (FillSpec), continued *)

\* C16: a template that is missing or cannot be read costs only its own form:
\* fill_acord_forms raises for no template, and every requested form with a
\* readable template and a field mapping is in the results
C16_TemplateFailureLocal ==
    /\ fpc = "crashed" => ~insured_name_ok(data)
    /\ fpc = "done" =>
          \A i \in DOMAIN forms :
              (/\ forms[i] \in FormSet
               /\ templates[forms[i]] = "ok"
               /\ ~fmap_empty(forms[i])) => forms[i] \in Range(results)

-----------------------------------------------------------------------------
(* The coverage document under fill_pdf (PdfSpec) *)

\* C20: no step of fill_pdf changes the coverage document, whether the
\* resolvers succeed, raise or match no field of the template: the document
\* the caller holds after a step is the document it held before, also where
\* fill_values has come to hold an object of the document
C20_DocumentUnchanged == [][data' = data]_vars

\* a fill over a table in which a resolver raised, a resolved key matched no
\* field, and the name field was written from a value that is an object of
\* the document
C20_Witness ==
    /\ ppc = "returned"
    /\ field_map = ACORD25_FIELDS
    /\ data = StructuredNameDoc
    /\ warnings /= {}
    /\ unmatched /= {}
    /\ "NamedInsured_FullName_A" \in matched_fields
    /\ fill_values["NamedInsured_FullName_A"] = data.d["insured"].d["name"]

-----------------------------------------------------------------------------
(* Properties of the ACORD 25 field table under fill_pdf (PdfSpec), continued *)

\* the additional-insured and subrogation-waived code fields of the four
\* coverages, acord_filler.py:320-321, 346-347, 368-369, 386
EndorsementCodes ==
    {[key |-> "CertificateOfInsurance_GeneralLiability_AdditionalInsuredCode_A",
      section |-> "gl", flag |-> "additionalInsured"],
     [key |-> "Policy_GeneralLiability_SubrogationWaivedCode_A",
      section |-> "gl", flag |-> "waiverOfSubrogation"],
     [key |-> "CertificateOfInsurance_AutomobileLiability_AdditionalInsuredCode_A",
      section |-> "auto", flag |-> "additionalInsured"],
     [key |-> "Policy_AutomobileLiability_SubrogationWaivedCode_A",
      section |-> "auto", flag |-> "waiverOfSubrogation"],
     [key |-> "CertificateOfInsurance_ExcessLiability_AdditionalInsuredCode_A",
      section |-> "umbrella", flag |-> "additionalInsured"],
     [key |-> "Policy_ExcessLiability_SubrogationWaivedCode_A",
      section |-> "umbrella", flag |-> "waiverOfSubrogation"],
     [key |-> "Policy_WorkersCompensation_SubrogationWaivedCode_A",
      section |-> "workersComp", flag |-> "waiverOfSubrogation"]}

\* the presence predicate of a coverage is true
Present(d, section) ==
    JBool(TRUE) = (CASE section = "gl" -> _has_gl(d)
                     [] section = "auto" -> _has_auto(d)
                     [] section = "umbrella" -> _has_umbrella(d)
                     [] section = "workersComp" -> _has_wc(d))

\* the endorsement flag of the document is set
FlagSet(d, flag) ==
    LET v == _a25e(d, flag) IN ~IsRaised(v) /\ Truthy(v)

\* the resolve loop has run over ACORD25_FIELDS
Resolved25 == Resolved /\ DOMAIN field_map = ACORD25_KEYS

\* C21: conditional gating of endorsements. For every coverage document and
\* each ACORD 25 coverage, the additional-insured and subrogation-waived code
\* fields resolve to "Y" only if the coverage's presence predicate is true and
\* the endorsement flag is set; in every other case they resolve to the empty
\* string: the resolver does not raise, and the only value it hands to the
\* fill is "Y".
C21_EndorsementGating ==
    Resolved25 =>
        \A e \in EndorsementCodes :
            /\ e.key \notin warnings
            /\ e.key \in DOMAIN fill_values =>
                   /\ fill_values[e.key] = JStr("Y")
                   /\ Present(data, e.section)
                   /\ FlagSet(data, e.flag)

\* the insurer-letter fields of the four coverages, acord_filler.py:290, 324,
\* 350, 372
InsurerLetterCodes ==
    {"GeneralLiability_InsurerLetterCode_A", "Vehicle_InsurerLetterCode_A",
     "ExcessUmbrella_InsurerLetterCode_A",
     "WorkersCompensationEmployersLiability_InsurerLetterCode_A"}

\* two letters name the same carrier: _carrier compares them in upper case
SameLetter(a, b) ==
    a.k = "str" /\ b.k = "str" /\ str_upper(a.s) = str_upper(b.s)

HasCarrier(record, letter) == \E l \in CarrierLetters(record) : SameLetter(l, letter)

\* C22: every insurer-letter field resolved for ACORD 25 (general liability,
\* auto, umbrella, workers compensation) is either empty or the letter of an
\* entry of the document's carriers list, also when the coverage section is
\* present, its insurerLetter is empty and no carrier has the letter A.
C22_ResolvedLettersHaveCarriers ==
    Resolved25 =>
        \A key \in InsurerLetterCodes :
            key \in DOMAIN fill_values => HasCarrier(data, fill_values[key])

-----------------------------------------------------------------------------
(* Properties of the walk over the template fields (PdfSpec) *)

\* fill_pdf has walked the annotations and written the output
Filled == ppc = "returned" /\ DOMAIN fill_values /= {} /\ outfile.k = "pdf"

\* the places of the template's fields: page and position
Places ==
    UNION {{<<p, a>> : a \in DOMAIN pdf.pages[p].annots} : p \in DOMAIN pdf.pages}

Before(pl) == pdf.pages[pl[1]].annots[pl[2]]
After(pl) == outfile.pages[pl[1]].annots[pl[2]]

\* the texts that tick a choice field: Y and YES in any letter case
TickTexts == {"Y", "y", "YES", "YEs", "YeS", "Yes", "yES", "yEs", "yeS", "yes"}

Ticks(val) == val = JBool(TRUE) \/ (val.k = "str" /\ val.s \in TickTexts)

\* the first key of the normal-appearance dictionary other than /Off, /Yes
\* when there is none
ChoiceOnState(annot) ==
    LET others == {i \in DOMAIN annot.AP.states : annot.AP.states[i] /= "/Off"}
    IN  IF annot.AP.present /\ others /= {}
        THEN annot.AP.states[CHOOSE i \in others : \A j \in others : i <= j]
        ELSE "/Yes"

\* C23: choice-field write. A choice field's value and appearance state are
\* changed only if the value matched to it is boolean true or the text Y or
\* YES in any letter case; both are then set to the same state name, the
\* first key of the field's normal-appearance dictionary other than /Off, or
\* /Yes when there is none, and nothing else of the field changes. A choice
\* field matched to any other value, or to none, is left untouched.
C23_ChoiceWrite ==
    Filled =>
        \A pl \in Places :
            _get_field_type(Before(pl)) = "/Btn" =>
                IF Ticks(match_value(Before(pl), fill_values))
                THEN After(pl) = [Before(pl) EXCEPT
                                    !.V = NameObject(ChoiceOnState(Before(pl))),
                                    !.AS = NameObject(ChoiceOnState(Before(pl)))]
                ELSE After(pl) = Before(pl)

\* a check box under a /Btn parent is ticked by "yes" with its first state
\* other than /Off, one without such a state by true with /Yes, and one
\* matched to "N" stays as it was
C23_Witness ==
    /\ Filled
    /\ pdf = ChoiceTemplate
    /\ match_value(Before(<<1, 1>>), fill_values) = JStr("yes")
    /\ After(<<1, 1>>).V = NameObject("/On")
    /\ After(<<1, 1>>).AS = NameObject("/On")
    /\ match_value(Before(<<1, 2>>), fill_values) = JStr("N")
    /\ After(<<1, 2>>) = Before(<<1, 2>>)
    /\ After(<<1, 7>>).V = NameObject("/Yes")
    /\ After(<<1, 7>>).AS = NameObject("/Yes")

\* the resolved value the matching order gives a field: the one keyed by its
\* short name when there is one, else the one keyed by its qualified name
HasValue(annot) ==
    annot.T \in DOMAIN fill_values \/ _get_qualified_name(annot) \in DOMAIN fill_values

Chosen(annot) ==
    IF annot.T \in DOMAIN fill_values THEN fill_values[annot.T]
    ELSE fill_values[_get_qualified_name(annot)]

\* C24: field matching order. For every template field the value written is
\* the resolved value keyed by the field's short name when one exists; the
\* value keyed by the qualified name is used only when the short name has no
\* resolved value; a field with neither is left untouched. A text field shows
\* the chosen value, a choice field is ticked exactly when the chosen value
\* ticks it.
C24_ShortNameFirst ==
    Filled =>
        \A pl \in Places :
            IF ~HasValue(Before(pl)) THEN After(pl) = Before(pl)
            ELSE IF _get_field_type(Before(pl)) = "/Btn"
                 THEN After(pl) /= Before(pl) <=> Ticks(Chosen(Before(pl)))
            ELSE After(pl).V = TextStringObject(py_str(Chosen(Before(pl))).s)

-----------------------------------------------------------------------------
(* Properties of the extraction run (Spec), continued *)

\* the extraction run has left its loop and produced the primary record
RunFinished == pc \in BeforeEdit

\* what file f contributes to all_classifications: the answer of the call,
\* or doc type "unknown" with confidence 0 when the call failed
ClassificationsFor(f) ==
    {Classification(f, DocTypeOf(f), 90), Classification(f, "unknown", 0)}

\* what file f contributes to all_extractions: the record read from it, or
\* an empty record when the call failed
ExtractionsFor(f) == {ExtractionOf(f), EmptyDict}

\* C25: external-call failures degrade without propagating. For N uploaded
\* files and any pattern of failing classification and extraction calls the
\* extraction run does not crash, entry i of all_classifications and of all_extractions
\* belongs to file i (a failed classification gives doc type "unknown" with
\* confidence 0, a failed extraction an empty record), every file the loop
\* has passed has both entries, and the run finishes with exactly N entries
\* of each.
C25_FailuresDegrade ==
    /\ pc /= "crashed"
    /\ Len(classifications) <= Len(files)
    /\ \A i \in 1..Len(classifications) : classifications[i] \in ClassificationsFor(files[i])
    /\ pc \in {"classify", "extract", "merge"} \cup BeforeEdit =>
           \A i \in 1..Len(extractions) : extractions[i] \in ExtractionsFor(files[i])
    /\ Len(classifications) = Len(extractions) + (IF pc = "extract" THEN 1 ELSE 0)
    /\ RunFinished => Len(classifications) = Len(files) /\ Len(extractions) = Len(files)

\* two files, the classification of the first and the extraction of the
\* second failed, the run finished
C25_Witness ==
    /\ RunFinished
    /\ Len(files) = 2
    /\ classifications[1].doc_type = "unknown"
    /\ classifications[2].doc_type /= "unknown"
    /\ extractions[1] /= EmptyDict
    /\ extractions[2] = EmptyDict

\* C26: strict sequencing of the pipeline. The classification call for a file
\* comes when every earlier file has been classified and extracted, the
\* extraction call for a file right after its classification, the
\* reconciliation call only after every file has been classified and
\* extracted, at most once and only with more than one extraction, and the
\* result is stored only after that.
C26_StrictSequence ==
    [][/\ Len(classifications') > Len(classifications) =>
             /\ classifications' = Append(classifications, classifications'[Len(classifications')])
             /\ Len(extractions) = Len(classifications)
             /\ extractions' = extractions
             /\ mergeCalls = 0 /\ stored = NoDoc
       /\ Len(extractions') > Len(extractions) =>
             /\ extractions' = Append(extractions, extractions'[Len(extractions')])
             /\ Len(classifications) = Len(extractions) + 1
             /\ classifications' = classifications
             /\ mergeCalls = 0 /\ stored = NoDoc
       /\ mergeCalls' /= mergeCalls =>
             /\ mergeCalls = 0 /\ mergeCalls' = 1
             /\ Len(classifications) = Len(files) /\ Len(extractions) = Len(files)
             /\ Len(extractions) > 1
             /\ stored = NoDoc
       /\ stored' /= stored =>
             /\ Len(classifications) = Len(files) /\ Len(extractions) = Len(files)
             /\ mergeCalls = (IF Len(extractions) > 1 THEN 1 ELSE 0)
       /\ classifications' = classifications \/ Len(classifications') > Len(classifications)
       /\ Len(extractions') >= Len(extractions)
      ]_vars

\* two files were classified and extracted in turn, reconciled once, and the
\* result stored
C26_Witness ==
    /\ pc = "stored"
    /\ Len(files) = 2
    /\ Len(classifications) = 2 /\ Len(extractions) = 2
    /\ mergeCalls = 1
    /\ stored = primary

-----------------------------------------------------------------------------
(* app.py: one call of _preserve_fields (PreserveSpec)                       *)
(* reply holds the merge output the call starts from, extractions its list   *)
(* of sources, primary the record it returns.                                *)

\* a commercial-auto policy of another insured: it disagrees with the binder
\* on the insured, the general-liability policy and the carrier's NAIC code
AutoDoc ==
    JDict([
      insured |-> JDict([name |-> JStr("Opal Holdings"),
                         address |-> JStr("9 Elm St")]),
      carriers |-> JList(<<Carrier("A", "Acme Insurance", "22222")>>),
      acord25 |-> JDict([
        certificateNumber |-> JStr("CN-2"),
        gl |-> JDict([insurerLetter |-> JStr("B"),
                      policyNumber |-> JStr("GL-200"),
                      limits |-> JDict([eachOccurrence |-> JNum(500000),
                                        generalAggregate |-> JNull])]),
        auto |-> JDict([insurerLetter |-> JStr("A"),
                        policyNumber |-> JStr("CA-5"),
                        combinedSingleLimit |-> JNum(1000000)])]),
      acord27 |-> JDict([insurerLetter |-> JStr("B"),
                         policyNumber |-> JStr("PR-1"),
                         coverages |-> JDict([building |-> JNum(750000),
                                              contents |-> JNum(10000)])]),
      acord28 |-> JNull,
      acord30 |-> JNull])

\* a merge output with excluded limits: the auto combined single limit, the
\* general-liability occurrence limit and the building coverage are 0
ZeroMerge ==
    JDict([
      insured |-> JDict([name |-> JStr(""), address |-> JStr("1 Main St")]),
      carriers |-> JList(<<Carrier("A", "Acme Insurance", "")>>),
      acord25 |-> JDict([
        certificateNumber |-> JStr(""),
        gl |-> JDict([insurerLetter |-> JStr("A"),
                      policyNumber |-> JStr(""),
                      limits |-> JDict([eachOccurrence |-> JNum(0),
                                        generalAggregate |-> JNum(2000000)])]),
        auto |-> JDict([insurerLetter |-> JStr("A"),
                        policyNumber |-> JStr("CA-5"),
                        combinedSingleLimit |-> JNum(0)])]),
      acord27 |-> JDict([policyNumber |-> JStr(""),
                         coverages |-> JDict([building |-> JNum(0)])]),
      acord28 |-> JNull,
      acord30 |-> JNull])

\* a source and a merge output whose carrier names are no texts: the number 1
\* and true, which the comparison of line 398 finds equal
NumberedDoc ==
    JDict([carriers |-> JList(<<JDict([name |-> JNum(1), letter |-> JStr(""),
                                       naic |-> JStr("33333")])>>)])

TruthMerge ==
    JDict([carriers |-> JList(<<JDict([name |-> JBool(TRUE), letter |-> JStr("A"),
                                       naic |-> JStr("")])>>)])

\* the merge outputs json.loads may hand to _preserve_fields (app.py:422-423)
MergeOutputs ==
    {LossyMerge, NullMerge, ZeroMerge, EmptyDict, EmptyList, BinderDoc, TruthMerge}

\* the source extractions; {} is what a failed extraction leaves (app.py:545)
SourceDocs == {BinderDoc, DecDoc, PropertyDoc, AutoDoc, EmptyDict, NumberedDoc}

PreserveInit ==
    /\ pc = "_preserve_fields"
    /\ reply \in {Answer(BareText(m)) : m \in MergeOutputs}
    /\ extractions \in UNION {[1..n -> SourceDocs] : n \in 0..MaxFiles}
    /\ files = <<>>
    /\ classifications = <<>>
    /\ path = "none"
    /\ mergeCalls = 0
    /\ primary = NoDoc
    /\ stored = NoDoc
    /\ forms = <<>>
    /\ forms_to_generate = <<>>
    /\ FillIdle
    /\ PdfIdle
    /\ UnitIdle

\* the call _preserve_fields(reconciled, extractions) returns or raises
CallPreserve ==
    /\ pc = "_preserve_fields"
    /\ primary' = _preserve_fields(reply.text.body, extractions)
    /\ extractions' = sources_after_preserve(reply.text.body, extractions)
    /\ pc' = IF IsRaised(primary') THEN "_preserve_fields.raised"
             ELSE "_preserve_fields.returned"
    /\ UNCHANGED <<files, classifications, reply, path, mergeCalls, stored,
                   forms, forms_to_generate,
                   fillVars, pdfVars, unitVars>>

PreserveNext == CallPreserve

PreserveSpec == PreserveInit /\ [][PreserveNext]_vars

-----------------------------------------------------------------------------
(* Properties of the backfill pass (PreserveSpec) *)

\* _preserve_fields has returned a record
Preserved == pc = "_preserve_fields.returned"

\* the value at path p of x, NoDoc where x has no such member
RECURSIVE ValueAt(_, _)
ValueAt(x, p) ==
    IF p = <<>> THEN x
    ELSE IF IsDict(x) /\ Head(p) \in DOMAIN x.d THEN ValueAt(x.d[Head(p)], Tail(p))
    ELSE NoDoc

\* after keeps what before holds: a dict keeps each of its non-empty members
\* and may gain others, a list keeps its length and each entry, any other
\* value is equal
RECURSIVE Kept(_, _)
Kept(before, after) ==
    IF IsDict(before)
    THEN /\ IsDict(after)
         /\ \A f \in DOMAIN before.d :
               Truthy(before.d[f]) =>
                  f \in DOMAIN after.d /\ Kept(before.d[f], after.d[f])
    ELSE IF before.k = "list"
    THEN /\ after.k = "list"
         /\ Len(after.l) = Len(before.l)
         /\ \A j \in 1..Len(before.l) : Kept(before.l[j], after.l[j])
    ELSE after = before

\* the leaves the pass filled: empty or absent before, non-empty after
FilledLeaves(before, after) == NonEmptyLeaves(after) \ NonEmptyLeaves(before)

\* the leaf at p of the record is the one of the first source, in input
\* order, that holds a non-empty value there
FromFirstSource(record, exts, p) ==
    \E i \in 1..Len(exts) :
        /\ p \in NonEmptyLeaves(exts[i])
        /\ \A j \in 1..(i - 1) : p \notin NonEmptyLeaves(exts[j])
        /\ ValueAt(record, p) = ValueAt(exts[i], p)

\* C27: the backfill pass only fills gaps. For every merge output and every
\* list of sources, each field with a non-empty value in the merge output has
\* exactly that value in the returned record, and each field the pass filled
\* holds the value of the first source, in input order, with a non-empty value
\* for it.
C27_BackfillOnlyFillsGaps ==
    Preserved =>
        /\ Kept(reply.text.body, primary)
        /\ \A p \in FilledLeaves(reply.text.body, primary) :
               FromFirstSource(primary, extractions, p)

\* two sources disagree on the insured's name, the merge output had none, and
\* the returned record holds the name of the first of them while keeping the
\* address the merge output had
C27_Witness ==
    /\ Preserved
    /\ reply.text.body = ZeroMerge
    /\ extractions = <<AutoDoc, BinderDoc>>
    /\ ValueAt(primary, <<"insured", "name">>) = JStr("Opal Holdings")
    /\ ValueAt(primary, <<"insured", "address">>) = JStr("1 Main St")
    /\ ValueAt(primary, <<"acord25", "gl", "policyNumber">>) = JStr("GL-200")

\* the coverage sections of acord25 (app.py:339)
CoverageSections == {"gl", "auto", "umbrella", "workersComp"}

\* a non-zero amount
IsAmount(v) == v.k = "num" /\ v.n /= 0

\* some source holds a non-zero amount at path p
SourceAmountAt(exts, p) == \E i \in 1..Len(exts) : IsAmount(ValueAt(exts[i], p))

\* the fields of coverage section s that hold the number 0 in the record
ZeroFields(record, s) ==
    LET section == ValueAt(record, <<"acord25", s>>)
    IN  IF IsDict(section)
        THEN {f \in DOMAIN section.d : section.d[f] = JNum(0)}
        ELSE {}

\* C28: a zero limit survives the merge. When the merge output holds the
\* number 0 for a field of a coverage section and a source holds a non-zero
\* amount for the same field, the returned record still holds 0 there.
C28_ZeroLimitSurvives ==
    Preserved =>
        \A s \in CoverageSections :
            \A f \in ZeroFields(reply.text.body, s) :
                SourceAmountAt(extractions, <<"acord25", s, f>>) =>
                    ValueAt(primary, <<"acord25", s, f>>) = JNum(0)

-----------------------------------------------------------------------------
(* Properties of the presence predicates (PdfSpec) *)

\* the general-liability section of the document has an empty policy number
\* and limits that are all 0 or "Excluded"
ExcludedGl(d) ==
    LET gl == ValueAt(d, <<"acord25", "gl">>)
        limits == ValueAt(d, <<"acord25", "gl", "limits">>)
    IN  /\ IsDict(gl)
        /\ ~Truthy(dict_get(gl, "policyNumber", JStr("")))
        /\ IsDict(limits)
        /\ DOMAIN limits.d /= {}
        /\ \A f \in DOMAIN limits.d : limits.d[f] \in {JNum(0), JStr("Excluded")}

\* C29: an excluded limit does not make a coverage present. For a document
\* whose general-liability section has an empty policy number and only the
\* limits 0 or "Excluded", _has_gl is false, the general-liability coverage
\* indicator is not among the values to write, and the insurer letter field
\* gets no default letter.
C29_ExcludedLimitNotPresent ==
    (Resolved25 /\ ExcludedGl(data)) =>
        /\ _has_gl(data) = JBool(FALSE)
        /\ "GeneralLiability_CoverageIndicator_A" \notin DOMAIN fill_values
        /\ "GeneralLiability_InsurerLetterCode_A" \in DOMAIN fill_values =>
               fill_values["GeneralLiability_InsurerLetterCode_A"]
                   = _gl(data, "insurerLetter")

-----------------------------------------------------------------------------
(* Frame of the backfill pass (PreserveSpec) *)

\* C30: the backfill pass never modifies a source extraction. For every merge
\* output and every list of sources, the call of _preserve_fields, whether it
\* returns or raises, leaves the list of sources and each source in it, its
\* sections, limits and carriers included, equal to what it was before:
\* every write of the pass lands in an object of the merged record or in one
\* the pass made, also where the merged record has come to hold a dict of a
\* source.
C30_SourcesUnchanged ==
    [][pc = "_preserve_fields" => extractions' = extractions]_vars

\* the pass gave a merge output without a property form the form of the first
\* source and wrote the contents limit of the second source into its
\* coverages, and the first source still has the coverages it had
C30_Witness ==
    /\ Preserved
    /\ reply.text.body = LossyMerge
    /\ extractions = <<PropertyDoc, AutoDoc>>
    /\ ValueAt(primary, <<"acord27", "coverages">>)
           = JDict([building |-> JNum(500000), contents |-> JNum(10000)])
    /\ ValueAt(extractions[1], <<"acord27", "coverages">>)
           = JDict([building |-> JNum(500000)])

=============================================================================
